---- MODULE Spec2Model ----
(***************************************************************************)
(* Model of the task-queue orchestration layer of ai-radar: the NATS       *)
(* client (agents/_core/_rpc.py), the fetcher's stream and consumer setup  *)
(* (agents/fetcher/main.py), the agent lifecycle (agents/_core/_base.py)   *)
(* and the layered secrets manager (_core/secrets.py).                     *)
(*                                                                         *)
(* The broker (nats-server with JetStream) is modelled by its observable   *)
(* state: the streams, the messages they store, the durable consumers.     *)
(* Each subsystem has its own specification over the shared variables.     *)
(***************************************************************************)
EXTENDS Integers, Sequences, FiniteSets, TLC

(***************************************************************************)
(* Bounds of the model                                                     *)
(***************************************************************************)
NumPublishers == 2
MaxNetChanges == 2
MaxConns == 3
MaxFaults == 1
MaxCalls == 2
MaxTierChanges == 1
NumArticles == 3
NumTasks == 2
NumDeliveries == 3

(***************************************************************************)
(* Program constants                                                       *)
(***************************************************************************)
max_retries == 5
db_max_retries == 5

None == "None"
NoConn == 0

Range(s) == {s[i] : i \in 1..Len(s)}

(***************************************************************************)
(* NatsClient.__init__ : the candidate URL list                            *)
(***************************************************************************)
FixedFallbacks ==
  <<"nats://nats:4222", "nats://localhost:4222", "nats://host.docker.internal:4222">>

PrimaryUrls == {"nats://nats:4222", "nats://broker:4222"}

\* list.remove(x): drops the first occurrence of x
RemoveFirst_Keep(s, x) == s
RemoveFirst(s, x) ==
  IF x \notin Range(s) THEN s
  ELSE LET i == CHOOSE k \in 1..Len(s) : s[k] = x /\ \A j \in 1..(k-1) : s[j] # x
       IN  SubSeq(s, 1, i-1) \o SubSeq(s, i+1, Len(s))

FallbackUrls(u) == <<u>> \o RemoveFirst(FixedFallbacks, u)

AllUrls == Range(FixedFallbacks) \cup PrimaryUrls

(***************************************************************************)
(* Broker: streams                                                         *)
(***************************************************************************)
NoStream == [retention |-> "absent", prefix |-> None, max_msgs |-> 0]

Prefixes == {"ai-radar", "radar2"}
StreamNames == {"ai-radar", "radar2"}

\* the descriptor NatsClient.connect asks for: retention defaults to limits
ConnectStreamConfig ==
  [retention |-> "limits", prefix |-> "ai-radar", max_msgs |-> 100000]

Publishers == 1..NumPublishers
Subjects == {[prefix |-> "ai-radar", kind |-> "rss_fetch"]}
Deliveries == 1..NumDeliveries

VARIABLES
  url,          \* NatsClient.url, the primary URL
  nc,           \* NatsClient.nc : 0 (None) or the id of a connection
  js,           \* NatsClient.js : 0 (None) or the connection the handle belongs to
  connUrl,      \* the connections opened so far: connUrl[i] is the URL of connection i
  reachable,    \* environment: the URLs at which the broker answers now
  netChanges,   \* environment: number of reachability changes so far
  faults,       \* environment: JetStream API errors that may still be injected
  streams,      \* broker: stream name -> descriptor (or NoStream)
  msgs,         \* broker: stream name -> the sequence of stored messages
  ppc,          \* publish(): position of each caller
  attempt,      \* publish(): the loop variable of each caller
  psubject,     \* publish(): the subject argument of each caller
  contacts,     \* history: iterations of publish() that contacted the broker
  sawUp,        \* history: the broker answered in some iteration of publish()
  lastUp,       \* history: the broker answered in the latest iteration of publish()
  pctx,         \* history: the client and stream state at the call of publish(),
                \* and whether the call itself connected
  subscriptions,\* NatsClient.subscriptions : the subjects with a subscription
  rpc,          \* Router delivery: position of wrapped_callback for each delivery
  rsubject,     \* Router delivery: the subject of each delivery
  stubAcks,     \* Router delivery: calls of the handler's Message.ack() stand-in
  brokerAcks,   \* broker: acknowledgements received for each delivery
  handlerRaised,\* history: the handler of the delivery raised
  streamName,   \* FetcherConfig.NATS_STREAM_NAME
  subjectPrefix,\* FetcherConfig.NATS_SUBJECT_PREFIX
  consumers,    \* broker: the durable consumers, with their deliver subject
  subs,         \* the JetStream push subscriptions of the process, never unsubscribed
  fpc,          \* FetcherAgent.run: position
  setupRun,     \* FetcherAgent.run: which execution of setup() this is (0: none yet)
  fattempt,     \* FetcherAgent.setup: the loop variable of the connect loop
  jsCalls,      \* history: the JetStream calls issued by the current setup()
  infoResult,   \* history: what stream_info answered in the current setup()
  secrets_cache,\* SecretsManager.secrets_cache of each manager of the process:
                \* name -> value (None: not in the dict)
  vaultMode,    \* environment: state of the vault client and of the vault server
  vaultStore,   \* environment: vault (path, key) -> value
  envVar,       \* environment: os.environ[name]
  envFile,      \* environment: the file named by os.environ[name + "_FILE"]
  mounted,      \* environment: the file /run/secrets/<name.lower()>
  tierChanges,  \* environment: number of changes of the sources so far
  calls,        \* number of get_secret calls so far
  resolved,     \* history: name -> the first value the process resolved from a tier
                \* other than default
  lastCall,     \* history: the latest get_secret call, its inputs and its result
  processed_urls,\* FetcherAgent.processed_urls
  art,          \* handle_article_fetch: position and effects of each delivery
  arrivals,     \* history: the deliveries whose payload was decoded, in order
  everMarked,   \* history: every URL that was ever added to processed_urls
  svariant,     \* which agent's retry_db_operation runs: "summariser" or "ranker"
  pool,         \* PostgresClient.pool : "none" or "open"
  spc,          \* retry_db_operation: position
  retries,      \* retry_db_operation: the local retries
  last_error,   \* retry_db_operation: the local last_error
  sinv,         \* history: invocations of the operation so far
  firstTwo,     \* history: the outcomes of the first two invocations
  sleeps12,     \* history: sleeps between the first invocation and the second
  sleepsTotal,  \* history: sleeps of the call so far, client and wrapper
  fatalSeen,    \* history: the first authentication or missing-database error
  afterFatal,   \* history: invocations and sleeps after that error
  onlyTransient,\* history: every invocation so far failed with a connection error
  sresult,      \* how the call ended
  cpc,          \* NatsClient.connect: position
  ci,           \* NatsClient.connect: index of the candidate of the current iteration
  tried,        \* history: the URLs the current connect() has attempted, in order
  cerr,         \* NatsClient.connect: last_error, as the URL whose attempt raised it
  cctx,         \* history: nc, js and the connections opened, at the call of connect()
  closedConns,  \* the connections that nc.close() has closed
  stpc,         \* Router.start: position
  sremaining,   \* Router.start: the handlers the for loop has not reached yet
  sattempt,     \* NatsClient.subscribe: the local attempt of the current call
  sfailed,      \* history: the subjects whose subscribe() raised into start()
  sattempted,   \* history: the subjects start() has called subscribe() for
  akind,        \* which agent class runs: "base" or the name of a subclass
  lpc,          \* run(): position
  battempt,     \* BaseAgent.setup: the local attempt of the broker connect loop
  herrors,      \* HealthServer.metrics["errors"]
  is_ready,     \* BaseAgent.is_ready
  closeCalls,   \* history: the teardown steps called, each with whether it returned
  endedBy,      \* history: what made run() leave its loop
  cprefix,      \* the NATS_SUBJECT_PREFIX every agent process runs with
  csubscribed,  \* the stages whose Router.start has subscribed its handler
  task,         \* per pipeline task: the stage holding it, or the subject it is in flight on
  srows,        \* ai_radar.articles: the number of rows per url
  srank,        \* history: the rank tasks published, per url
  sdel,         \* per summarize delivery: position, url, retries of the insert
  rk,           \* per rank delivery: position, score class, publish attempt, acks
  shareMsgs,    \* the messages published on the share subject, with their payload keys
  shared,       \* history: the messages for which the sharer called share_to_linkedin
  smap,         \* NatsClient.subscriptions: per subject the subscription it holds, 0 for none
  sactive,      \* the subscriptions the connection delivers messages to
  subCalls,     \* the number of subscribe calls made so far
  schpc,        \* position of schedule_rss_updates: idle, publish or update
  schQueue,     \* the sources the loop of this cycle has still to go through
  schActive,    \* the active rss rows of ai_radar.sources
  schFetched,   \* last_fetched_at per source: the cycle that set it, 0 for NULL
  schPub,       \* history: the (source, cycle) pairs whose rss_fetch task was published
  schTried,     \* history: the (source, cycle) pairs whose publish was attempted, in order
  schCycle,     \* the number of schedule_rss_updates calls started
  schListed     \* history: the sources the query of the current cycle returned

clientVars == <<url, nc, js, connUrl>>
envVars == <<reachable, netChanges, faults>>
brokerVars == <<streams, msgs>>
pubVars == <<ppc, attempt, psubject, contacts, sawUp, lastUp, pctx>>
routerVars == <<subscriptions, rpc, rsubject, stubAcks, brokerAcks, handlerRaised>>
fetchVars == <<streamName, subjectPrefix, consumers, subs, fpc, setupRun, fattempt, jsCalls, infoResult>>
sourceVars == <<vaultMode, vaultStore, envVar, envFile, mounted, tierChanges>>
secretVars == <<secrets_cache, sourceVars, calls, resolved, lastCall>>
articleVars == <<processed_urls, art, arrivals, everMarked>>
storeVars == <<svariant, pool, spc, retries, last_error, sinv, firstTwo, sleeps12,
               sleepsTotal, fatalSeen, afterFatal, onlyTransient, sresult>>
connVars == <<cpc, ci, tried, cerr, cctx, closedConns>>
startVars == <<stpc, sremaining, sattempt, sfailed, sattempted>>
lifeVars == <<akind, lpc, battempt, herrors, is_ready, closeCalls, endedBy>>
chainVars == <<cprefix, csubscribed, task>>
sumVars == <<srows, srank, sdel>>
rankVars == <<rk, shareMsgs, shared>>
subsVars == <<smap, sactive, subCalls>>
schedVars == <<schpc, schQueue, schActive, schFetched, schPub, schTried, schCycle, schListed>>
vars == <<clientVars, envVars, brokerVars, pubVars, routerVars, fetchVars, secretVars, articleVars, storeVars, connVars, startVars, lifeVars, chainVars, sumVars, rankVars, subsVars, schedVars>>

\* what the actions of one subsystem leave alone
nonPub == <<routerVars, fetchVars, secretVars, articleVars, storeVars, connVars, startVars, lifeVars, chainVars, sumVars, rankVars, subsVars, schedVars>>
nonRouter == <<pubVars, fetchVars, secretVars, articleVars, storeVars, connVars, startVars, lifeVars, chainVars, sumVars, rankVars, subsVars, schedVars>>
nonFetch == <<pubVars, routerVars, secretVars, articleVars, storeVars, connVars, startVars, lifeVars, chainVars, sumVars, rankVars, subsVars, schedVars>>
nonSecret == <<clientVars, envVars, brokerVars, pubVars, routerVars, fetchVars, articleVars, storeVars, connVars, startVars, lifeVars, chainVars, sumVars, rankVars, subsVars, schedVars>>
nonArticle == <<clientVars, envVars, brokerVars, pubVars, routerVars, fetchVars, secretVars, storeVars, connVars, startVars, lifeVars, chainVars, sumVars, rankVars, subsVars, schedVars>>
nonStore == <<clientVars, envVars, brokerVars, pubVars, routerVars, fetchVars, secretVars, articleVars, connVars, startVars, lifeVars, chainVars, sumVars, rankVars, subsVars, schedVars>>
nonConn == <<pubVars, routerVars, fetchVars, secretVars, articleVars, storeVars, startVars, lifeVars, chainVars, sumVars, rankVars, subsVars, schedVars>>
nonStart == <<pubVars, fetchVars, secretVars, articleVars, storeVars, connVars, lifeVars, chainVars, sumVars, rankVars, subsVars, schedVars>>
nonLife == <<pubVars, routerVars, fetchVars, secretVars, articleVars, storeVars, connVars, startVars, chainVars, sumVars, rankVars, subsVars, schedVars>>
nonChain == <<clientVars, envVars, brokerVars, pubVars, routerVars, fetchVars, secretVars, articleVars, storeVars, connVars, startVars, lifeVars, sumVars, rankVars, subsVars, schedVars>>
nonSum == <<clientVars, envVars, brokerVars, pubVars, routerVars, fetchVars, secretVars, articleVars, storeVars, connVars, startVars, lifeVars, chainVars, rankVars, subsVars, schedVars>>
nonRank == <<clientVars, envVars, brokerVars, pubVars, routerVars, fetchVars, secretVars, articleVars, storeVars, connVars, startVars, lifeVars, chainVars, sumVars, subsVars, schedVars>>
nonSubs == <<clientVars, envVars, brokerVars, pubVars, routerVars, fetchVars, secretVars, articleVars, storeVars, connVars, startVars, lifeVars, chainVars, sumVars, rankVars, schedVars>>
nonSched == <<clientVars, envVars, brokerVars, pubVars, routerVars, fetchVars, secretVars, articleVars, storeVars, connVars, startVars, lifeVars, chainVars, sumVars, rankVars, subsVars>>
agentVars == <<pubVars, routerVars, fetchVars, secretVars, articleVars, storeVars, connVars, startVars, lifeVars, chainVars, sumVars, rankVars, subsVars, schedVars>>

fallback_urls == FallbackUrls(url)

(***************************************************************************)
(* Broker semantics of the JetStream calls the code makes                  *)
(***************************************************************************)
\* some other stream already captures the subjects prefix.>
Overlaps(ss, name, cfg) ==
  \E n \in StreamNames \ {name} : ss[n] # NoStream /\ ss[n].prefix = cfg.prefix

\* add_stream: creates an absent stream; on an existing stream it succeeds only
\* with an identical descriptor and never changes it
AddStreamOk(ss, name, cfg) ==
  IF ss[name] = NoStream THEN ~Overlaps(ss, name, cfg) ELSE ss[name] = cfg

AddStream(ss, name, cfg) ==
  IF ss[name] = NoStream /\ ~Overlaps(ss, name, cfg)
  THEN [ss EXCEPT ![name] = cfg] ELSE ss

\* the stream that captures a subject, or None
StreamOf(ss, subject) ==
  IF \E n \in StreamNames : ss[n] # NoStream /\ ss[n].prefix = subject.prefix
  THEN CHOOSE n \in StreamNames : ss[n] # NoStream /\ ss[n].prefix = subject.prefix
  ELSE None

(***************************************************************************)
(* NatsClient.connect                                                      *)
(***************************************************************************)
\* index of the first candidate URL that answers, 0 if none does
ConnectTarget(urls, reach) ==
  IF \E i \in 1..Len(urls) : urls[i] \in reach
  THEN CHOOSE i \in 1..Len(urls) : urls[i] \in reach /\ \A j \in 1..(i-1) : urls[j] \notin reach
  ELSE 0

ConnectSucceeds == ConnectTarget(fallback_urls, reachable) # 0

\* the effect of a successful connect(): a new connection, a new JetStream
\* handle, and the attempt to add the "ai-radar" stream, errors swallowed
ConnectEffect ==
  /\ ConnectSucceeds
  /\ Len(connUrl) < MaxConns
  /\ connUrl' = Append(connUrl, fallback_urls[ConnectTarget(fallback_urls, reachable)])
  /\ nc' = Len(connUrl) + 1
  /\ js' = Len(connUrl) + 1
  /\ \E injected \in {FALSE} \cup (IF faults > 0 THEN {TRUE} ELSE {}) :
       IF injected
       THEN faults' = faults - 1 /\ streams' = streams
       ELSE faults' = faults /\ streams' = AddStream(streams, "ai-radar", ConnectStreamConfig)
  /\ UNCHANGED <<url, msgs>>

(***************************************************************************)
(* Environment                                                             *)
(***************************************************************************)
\* the reachability situations explored: broker down, broker up at every
\* candidate URL, broker up at the last candidate only
ReachSets(urls) == {{}, Range(urls), {urls[Len(urls)]}}

NetChange ==
  /\ netChanges < MaxNetChanges
  /\ \E r \in ReachSets(fallback_urls) :
       /\ r # reachable
       /\ reachable' = r
  /\ netChanges' = netChanges + 1
  /\ UNCHANGED <<clientVars, faults, brokerVars, agentVars>>

(***************************************************************************)
(* NatsClient.publish                                                      *)
(***************************************************************************)
\* history of one iteration: whether it contacted the broker (a connect or a
\* send), and whether the broker was answering when the iteration ran
Contacted(p) == contacts' = [contacts EXCEPT ![p] = @ + 1]
Saw(p, up) ==
  /\ sawUp' = [sawUp EXCEPT ![p] = @ \/ up]
  /\ lastUp' = [lastUp EXCEPT ![p] = up]

PublishCall(p) ==
  /\ ppc[p] = "idle"
  /\ \E s \in Subjects : psubject' = [psubject EXCEPT ![p] = s]
  /\ ppc' = [ppc EXCEPT ![p] = "top"]
  /\ attempt' = [attempt EXCEPT ![p] = 1]
  /\ pctx' = [pctx EXCEPT ![p] =
       [disconnected |-> (js = NoConn),
        streamAbsent |-> (streams["ai-radar"] = NoStream),
        connected |-> FALSE,
        stale |-> (js # NoConn /\ (js \in closedConns \/ connUrl[js] \notin reachable))]]
  /\ contacts' = [contacts EXCEPT ![p] = 0]
  /\ sawUp' = [sawUp EXCEPT ![p] = FALSE]
  /\ lastUp' = [lastUp EXCEPT ![p] = FALSE]
  /\ UNCHANGED <<clientVars, envVars, brokerVars>>
  /\ UNCHANGED nonPub

\* top of an iteration with no JetStream handle and attempts left: call connect()
PublishNeedsConnect(p) ==
  /\ ppc[p] = "top"
  /\ js = NoConn
  /\ attempt[p] # max_retries
  /\ ppc' = [ppc EXCEPT ![p] = "connecting"]
  /\ UNCHANGED <<clientVars, envVars, brokerVars, attempt, psubject, contacts, sawUp, lastUp, pctx>>
  /\ UNCHANGED nonPub

\* top of the last iteration with no JetStream handle: RuntimeError, which the
\* outer handler re-raises because attempt == max_retries
PublishGiveUp(p) ==
  /\ ppc[p] = "top"
  /\ js = NoConn
  /\ attempt[p] = max_retries
  /\ ppc' = [ppc EXCEPT ![p] = "raised"]
  /\ Saw(p, ConnectSucceeds)
  /\ UNCHANGED <<clientVars, envVars, brokerVars, attempt, psubject, contacts, pctx>>
  /\ UNCHANGED nonPub

\* top of an iteration with a JetStream handle: go on to js.publish
PublishHasHandle(p) ==
  /\ ppc[p] = "top"
  /\ js # NoConn
  /\ ppc' = [ppc EXCEPT ![p] = "sending"]
  /\ UNCHANGED <<clientVars, envVars, brokerVars, attempt, psubject, contacts, sawUp, lastUp, pctx>>
  /\ UNCHANGED nonPub

PublishConnectOk(p) ==
  /\ ppc[p] = "connecting"
  /\ ConnectEffect
  /\ ppc' = [ppc EXCEPT ![p] = "sending"]
  /\ Saw(p, TRUE)
  /\ pctx' = [pctx EXCEPT ![p].connected = TRUE]
  /\ UNCHANGED <<reachable, netChanges, attempt, psubject, contacts>>
  /\ UNCHANGED nonPub

\* connect() raised: sleep retry_delay and continue with the next iteration
PublishConnectFail(p) ==
  /\ ppc[p] = "connecting"
  /\ ~ConnectSucceeds
  /\ ppc' = [ppc EXCEPT ![p] = "top"]
  /\ attempt' = [attempt EXCEPT ![p] = @ + 1]
  /\ Contacted(p)
  /\ Saw(p, FALSE)
  /\ UNCHANGED <<clientVars, envVars, brokerVars, psubject, pctx>>
  /\ UNCHANGED nonPub

\* js.publish is acknowledged when the connection of the handle still reaches
\* the broker and a stream captures the subject
SendSucceeds(p) ==
  /\ js # NoConn
  /\ js \notin closedConns
  /\ connUrl[js] \in reachable
  /\ StreamOf(streams, psubject[p]) # None

PublishSendOk(p) ==
  /\ ppc[p] = "sending"
  /\ SendSucceeds(p)
  /\ LET sn == StreamOf(streams, psubject[p])
     IN  msgs' = [msgs EXCEPT ![sn] = Append(@, [subject |-> psubject[p], by |-> p])]
  /\ ppc' = [ppc EXCEPT ![p] = "returned"]
  /\ Contacted(p)
  /\ Saw(p, TRUE)
  /\ UNCHANGED <<clientVars, envVars, streams, attempt, psubject, pctx>>
  /\ UNCHANGED nonPub

PublishSendFail(p) ==
  /\ ppc[p] = "sending"
  /\ ~SendSucceeds(p)
  /\ Contacted(p)
  /\ Saw(p, js # NoConn /\ connUrl[js] \in reachable)
  /\ IF attempt[p] = max_retries
     THEN /\ ppc' = [ppc EXCEPT ![p] = "raised"]
          /\ attempt' = attempt
     ELSE /\ ppc' = [ppc EXCEPT ![p] = "top"]
          /\ attempt' = [attempt EXCEPT ![p] = @ + 1]
  /\ UNCHANGED <<clientVars, envVars, brokerVars, psubject, pctx>>
  /\ UNCHANGED nonPub

\* an agent's setup calling bus.connect() directly
ClientConnect ==
  /\ ConnectEffect
  /\ UNCHANGED <<reachable, netChanges, agentVars>>

(***************************************************************************)
(* SecretsManager: names, and the naming convention of the vault lookup    *)
(***************************************************************************)
\* A secret name is the sequence of its tokens between underscores:
\* POSTGRES_PASSWORD is <<"POSTGRES", "PASSWORD">>.
PostgresPassword == <<"POSTGRES", "PASSWORD">>
MinioEndpoint == <<"MINIO", "ENDPOINT">>
OpenaiApiKey == <<"OPENAI", "API", "KEY">>
BucketName == <<"BUCKET", "NAME">>

SecretNames == {PostgresPassword, MinioEndpoint, OpenaiApiKey, BucketName}

\* the SecretsManager objects of one agent process: BaseAgent.secrets, and the
\* secrets_manager that the ranker, the summariser and the sharer build as well
Managers == {"secrets", "secrets_manager"}

\* str.lower() of a token
LowerTok(t) ==
  CASE t = "POSTGRES" -> "postgres" [] t = "PASSWORD" -> "password" [] t = "DB" -> "db"
    [] t = "NATS" -> "nats" [] t = "HOST" -> "host" [] t = "MINIO" -> "minio"
    [] t = "ENDPOINT" -> "endpoint" [] t = "OPENAI" -> "openai" [] t = "API" -> "api"
    [] t = "KEY" -> "key" [] t = "BUCKET" -> "bucket" [] t = "NAME" -> "name"
    [] t = "DEBUG" -> "debug" [] t = "TOKEN" -> "token" [] OTHER -> t

Lower(name) == [i \in 1..Len(name) |-> LowerTok(name[i])]

\* name.startswith(tok + "_")
StartsWith(name, tok) == Len(name) >= 2 /\ name[1] = tok

\* name.endswith("_" + tok)
EndsWith(name, tok) == Len(name) >= 2 /\ name[Len(name)] = tok

\* name.replace(tok + "_", ""): every token tok that an underscore follows goes
RECURSIVE DropLeading(_, _)
DropLeading(name, tok) ==
  IF Len(name) <= 1 THEN name
  ELSE IF name[1] = tok THEN DropLeading(Tail(name), tok)
  ELSE <<name[1]>> \o DropLeading(Tail(name), tok)

\* name.replace("_" + tok, ""): every token tok that follows an underscore goes
RECURSIVE DropTrailingFrom(_, _)
DropTrailingFrom(rest, tok) ==
  IF rest = <<>> THEN <<>>
  ELSE IF rest[1] = tok THEN DropTrailingFrom(Tail(rest), tok)
  ELSE <<rest[1]>> \o DropTrailingFrom(Tail(rest), tok)

DropTrailing(name, tok) ==
  IF name = <<>> THEN name ELSE <<name[1]>> \o DropTrailingFrom(Tail(name), tok)

\* name.replace("_api_key", "")
RECURSIVE DropApiKeyFrom(_)
DropApiKeyFrom(rest) ==
  IF Len(rest) < 2 THEN rest
  ELSE IF rest[1] = "api" /\ rest[2] = "key" THEN DropApiKeyFrom(Tail(Tail(rest)))
  ELSE <<rest[1]>> \o DropApiKeyFrom(Tail(rest))

DropApiKey(name) ==
  IF name = <<>> THEN name ELSE <<name[1]>> \o DropApiKeyFrom(Tail(name))

NoPath == [path |-> None, key |-> <<>>]

\* the (path, key) of the vault lookup for a name, NoPath when none is made
VaultPathKey(name) ==
  IF StartsWith(name, "POSTGRES") \/ StartsWith(name, "DB")
  THEN [path |-> "database", key |-> Lower(DropLeading(DropLeading(name, "POSTGRES"), "DB"))]
  ELSE IF StartsWith(name, "NATS")
  THEN [path |-> "nats", key |-> Lower(DropLeading(name, "NATS"))]
  ELSE IF StartsWith(name, "MINIO")
  THEN [path |-> "minio", key |-> Lower(DropLeading(name, "MINIO"))]
  ELSE IF EndsWith(name, "KEY") \/ EndsWith(name, "TOKEN")
  THEN [path |-> "api-keys",
        key |-> DropTrailing(DropTrailing(DropApiKey(Lower(name)), "key"), "token")]
  ELSE IF Len(name) >= 2
  THEN [path |-> LowerTok(name[1]), key |-> Tail(Lower(name))]
  ELSE NoPath

VaultKeys == {VaultPathKey(n) : n \in SecretNames} \ {NoPath}

\* if name != "MINIO_ENDPOINT": the vault is consulted
SkipsVault(name) == name = MinioEndpoint

Unreadable == "unreadable"

\* no get_secret call has been made yet
NoCall ==
  [manager |-> None, name |-> <<>>, default |-> None, value |-> None, tier |-> "none", consulted |-> {},
   pre |-> [cache |-> None, resolved |-> None, vault |-> None, env |-> None,
            file |-> None, mounted |-> None, vaultMode |-> None,
            fileState |-> None, mountedState |-> None, afterDefault |-> FALSE]]
Defaults == {None, "dflt"}

\* _read_vault_secret: no client gives None; the SDK read gives the value of the
\* key; when the SDK raises, the HTTP request gives it; when both fail, None
ReadVault(pk) ==
  CASE vaultMode = "no_client" -> None
    [] vaultMode = "up" -> vaultStore[pk]
    [] vaultMode = "sdk_fails" -> vaultStore[pk]
    [] OTHER -> None

\* what the vault answers for the path and key of a name
VaultHeld(name) ==
  IF VaultPathKey(name) = NoPath THEN None ELSE ReadVault(VaultPathKey(name))

VaultValue(name) == IF SkipsVault(name) THEN None ELSE VaultHeld(name)

\* a file tier holds a value when the file exists and can be read
FileContent(f) == IF f = Unreadable THEN None ELSE f

\* if name in self.secrets_cache
CacheHit(m, name) == secrets_cache[m][name] # None

\* what each handler of a source failure does with the error
\* _read_vault_secret: both except clauses log, and None is returned
AfterVaultError == "none"
\* get_secret: the except clause of the _FILE read logs and goes on
AfterFileReadError_Raises == "raise"
AfterFileReadError == "next_tier"
\* _read_compose_secret: the except clause logs, and None is returned
AfterMountedReadError == "none"

\* the vault lookup of the call fails: a lookup is made and neither the SDK read
\* nor the HTTP request gets an answer
VaultLookupFails(name) ==
  ~SkipsVault(name) /\ VaultPathKey(name) # NoPath /\ vaultMode = "down"

Raised == [value |-> None, tier |-> "raised"]

\* get_secret: the tier that answers, and its value
Resolve(m, name, default) ==
  IF CacheHit(m, name) THEN [value |-> secrets_cache[m][name], tier |-> "cache"]
  ELSE IF VaultLookupFails(name) /\ AfterVaultError = "raise" THEN Raised
  ELSE IF VaultValue(name) # None THEN [value |-> VaultValue(name), tier |-> "vault"]
  ELSE IF envVar[name] # None THEN [value |-> envVar[name], tier |-> "env"]
  ELSE IF envFile[name] = Unreadable /\ AfterFileReadError = "raise" THEN Raised
  ELSE IF FileContent(envFile[name]) # None
  THEN [value |-> FileContent(envFile[name]), tier |-> "file"]
  ELSE IF mounted[name] = Unreadable /\ AfterMountedReadError = "raise" THEN Raised
  ELSE IF FileContent(mounted[name]) # None
  THEN [value |-> FileContent(mounted[name]), tier |-> "mounted"]
  ELSE [value |-> default, tier |-> "default"]

TierOrder == <<"cache", "vault", "env", "file", "mounted", "default">>
TierIndex(t) == CHOOSE i \in 1..Len(TierOrder) : TierOrder[i] = t

\* the sources a call reads: none on a cache hit, else every tier up to the one
\* that answers (the vault only when the call makes a vault lookup)
Consulted(name, tier) ==
  IF tier = "cache" THEN {}
  ELSE {TierOrder[i] : i \in 2..(IF tier \in {"default", "raised"} THEN 5 ELSE TierIndex(tier))}
       \ (IF SkipsVault(name) \/ VaultPathKey(name) = NoPath THEN {"vault"} ELSE {})

\* the answering tiers whose value get_secret writes to secrets_cache: each
\* tier that holds a value, and not the default returned at the end
CachedTiers_AlsoDefault == {"vault", "env", "file", "mounted", "default"}
CachedTiers == {"vault", "env", "file", "mounted"}

GetSecret(m, name, default) ==
  /\ calls < MaxCalls
  /\ calls' = calls + 1
  /\ LET r == Resolve(m, name, default)
     IN  /\ secrets_cache' = IF r.tier \in CachedTiers
                             THEN [secrets_cache EXCEPT ![m][name] = r.value]
                             ELSE secrets_cache
         /\ resolved' = IF r.tier \in {"cache", "default", "raised"} \/ resolved[name] # None
                        THEN resolved ELSE [resolved EXCEPT ![name] = r.value]
         /\ lastCall' = [manager |-> m, name |-> name, default |-> default, value |-> r.value,
                         tier |-> r.tier, consulted |-> Consulted(name, r.tier),
                         pre |-> [cache |-> secrets_cache[m][name],
                                  resolved |-> resolved[name],
                                  vault |-> VaultHeld(name),
                                  env |-> envVar[name],
                                  file |-> FileContent(envFile[name]),
                                  mounted |-> FileContent(mounted[name]),
                                  vaultMode |-> vaultMode,
                                  fileState |-> envFile[name],
                                  mountedState |-> mounted[name],
                                  afterDefault |-> /\ lastCall.tier = "default"
                                                   /\ lastCall.manager = m
                                                   /\ lastCall.name = name]]
  /\ UNCHANGED sourceVars
  /\ UNCHANGED nonSecret

\* the sources of the latest name change while the process runs
VaultChange ==
  /\ tierChanges < MaxTierChanges
  /\ lastCall # NoCall
  /\ VaultPathKey(lastCall.name) # NoPath
  /\ \E v \in {None, "vault-2"} :
       /\ vaultStore[VaultPathKey(lastCall.name)] # v
       /\ vaultStore' = [vaultStore EXCEPT ![VaultPathKey(lastCall.name)] = v]
  /\ tierChanges' = tierChanges + 1
  /\ UNCHANGED <<secrets_cache, vaultMode, envVar, envFile, mounted, calls, resolved, lastCall>>
  /\ UNCHANGED nonSecret

VaultModeChange ==
  /\ tierChanges < MaxTierChanges
  /\ lastCall # NoCall
  /\ vaultMode # "no_client"
  /\ \E m \in {"up", "sdk_fails", "down"} : m # vaultMode /\ vaultMode' = m
  /\ tierChanges' = tierChanges + 1
  /\ UNCHANGED <<secrets_cache, vaultStore, envVar, envFile, mounted, calls, resolved, lastCall>>
  /\ UNCHANGED nonSecret

EnvChange ==
  /\ tierChanges < MaxTierChanges
  /\ lastCall # NoCall
  /\ \E v \in {None, "env-2"} :
       /\ envVar[lastCall.name] # v
       /\ envVar' = [envVar EXCEPT ![lastCall.name] = v]
  /\ tierChanges' = tierChanges + 1
  /\ UNCHANGED <<secrets_cache, vaultMode, vaultStore, envFile, mounted, calls, resolved, lastCall>>
  /\ UNCHANGED nonSecret

FileChange ==
  /\ tierChanges < MaxTierChanges
  /\ lastCall # NoCall
  /\ \E v \in {None, Unreadable, "file-2"} :
       /\ envFile[lastCall.name] # v
       /\ envFile' = [envFile EXCEPT ![lastCall.name] = v]
  /\ tierChanges' = tierChanges + 1
  /\ UNCHANGED <<secrets_cache, vaultMode, vaultStore, envVar, mounted, calls, resolved, lastCall>>
  /\ UNCHANGED nonSecret

MountedChange ==
  /\ tierChanges < MaxTierChanges
  /\ lastCall # NoCall
  /\ \E v \in {None, Unreadable, "mounted-2"} :
       /\ mounted[lastCall.name] # v
       /\ mounted' = [mounted EXCEPT ![lastCall.name] = v]
  /\ tierChanges' = tierChanges + 1
  /\ UNCHANGED <<secrets_cache, vaultMode, vaultStore, envVar, envFile, calls, resolved, lastCall>>
  /\ UNCHANGED nonSecret

Only(n, v) == [m \in SecretNames |-> IF m = n THEN v ELSE None]

SecretIdle ==
  /\ secrets_cache = [m \in Managers |-> [n \in SecretNames |-> None]]
  /\ vaultMode = "no_client"
  /\ vaultStore = [k \in VaultKeys |-> None]
  /\ envVar = [n \in SecretNames |-> None]
  /\ envFile = [n \in SecretNames |-> None]
  /\ mounted = [n \in SecretNames |-> None]
  /\ tierChanges = 0
  /\ calls = 0
  /\ resolved = [n \in SecretNames |-> None]
  /\ lastCall = NoCall

(***************************************************************************)
(* FetcherAgent.handle_article_fetch                                       *)
(***************************************************************************)
Articles == 1..NumArticles
ArticleUrls == {"http://a/x", "http://a/x/"}

NoArticle ==
  [pc |-> "none", url |-> None, seen |-> None, gets |-> 0, stored |-> FALSE,
   published |-> FALSE, acks |-> 0, errors |-> 0]

\* if url in self.processed_urls
Seen_Never(u) == FALSE
Seen(u) == u \in processed_urls

\* json.loads and data["url"] succeed; a URL already in processed_urls is
\* acknowledged and the handler returns, any other URL is added to the set
\* processed_urls after a delivery of u passed the membership test: add(u)
\* is the next statement, no await in between
AfterGuard_AddAfterAwait(u) == processed_urls
AfterGuard(u) == processed_urls \cup {u}

\* processed_urls after the except clause handled a failure of the
\* processing of u: nothing removes a URL from the set
AfterFailure_Unmarks(u) == processed_urls \ {u}
AfterFailure(u) == processed_urls

ArticleDeliver(d, u) ==
  /\ art[d].pc = "none"
  /\ arrivals' = Append(arrivals, d)
  /\ IF Seen(u)
     THEN /\ art' = [art EXCEPT ![d] = [@ EXCEPT !.pc = "done", !.url = u, !.seen = "seen",
                                                 !.acks = @ + 1]]
          /\ UNCHANGED <<processed_urls, everMarked>>
     ELSE /\ art' = [art EXCEPT ![d] = [@ EXCEPT !.pc = "fetch", !.url = u, !.seen = "unseen"]]
          /\ processed_urls' = AfterGuard(u)
          /\ everMarked' = everMarked \cup {u}
  /\ UNCHANGED nonArticle

\* the payload is not JSON or has no "url": the except clause counts the error
\* and acknowledges
ArticleBadPayload(d) ==
  /\ art[d].pc = "none"
  /\ art' = [art EXCEPT ![d] = [@ EXCEPT !.pc = "tail", !.acks = @ + 1, !.errors = @ + 1]]
  /\ UNCHANGED <<processed_urls, arrivals, everMarked>>
  /\ UNCHANGED nonArticle

\* client.get(url) and raise_for_status() succeed
ArticleFetchOk(d) ==
  /\ art[d].pc = "fetch"
  /\ art' = [art EXCEPT ![d] = [@ EXCEPT !.pc = "store", !.gets = @ + 1]]
  /\ UNCHANGED <<processed_urls, arrivals, everMarked>>
  /\ UNCHANGED nonArticle

\* the request fails: the except clause counts the error and acknowledges
ArticleFetchFail(d) ==
  /\ art[d].pc = "fetch"
  /\ art' = [art EXCEPT ![d] = [@ EXCEPT !.pc = "tail", !.gets = @ + 1, !.acks = @ + 1,
                                              !.errors = @ + 1]]
  /\ processed_urls' = AfterFailure(art[d].url)
  /\ UNCHANGED <<arrivals, everMarked>>
  /\ UNCHANGED nonArticle

\* s3_client.put_object succeeds
ArticleStoreOk(d) ==
  /\ art[d].pc = "store"
  /\ art' = [art EXCEPT ![d] = [@ EXCEPT !.pc = "publish", !.stored = TRUE]]
  /\ UNCHANGED <<processed_urls, arrivals, everMarked>>
  /\ UNCHANGED nonArticle

ArticleStoreFail(d) ==
  /\ art[d].pc = "store"
  /\ art' = [art EXCEPT ![d] = [@ EXCEPT !.pc = "tail", !.acks = @ + 1, !.errors = @ + 1]]
  /\ processed_urls' = AfterFailure(art[d].url)
  /\ UNCHANGED <<arrivals, everMarked>>
  /\ UNCHANGED nonArticle

\* self.js.publish: the agent has no attribute js (the handle is self.bus.js), so
\* the call raises AttributeError before anything is sent; the except clause
\* counts the error and acknowledges
ArticlePublish(d) ==
  /\ art[d].pc = "publish"
  /\ art' = [art EXCEPT ![d] = [@ EXCEPT !.pc = "tail", !.acks = @ + 1, !.errors = @ + 1]]
  /\ processed_urls' = AfterFailure(art[d].url)
  /\ UNCHANGED <<arrivals, everMarked>>
  /\ UNCHANGED nonArticle

\* the acknowledgments of the statements after the try statement: the
\* msg.ack() that ends them is behind the NameError and is never reached
TailAcks_ReachesLastAck == 1
TailAcks == 0

\* the statements after the try statement: BeautifulSoup(html, ...) reads the
\* undefined name html and the handler ends with NameError
ArticleTail(d) ==
  /\ art[d].pc = "tail"
  /\ art' = [art EXCEPT ![d] = [@ EXCEPT !.pc = "raised", !.acks = @ + TailAcks]]
  /\ UNCHANGED <<processed_urls, arrivals, everMarked>>
  /\ UNCHANGED nonArticle

ArticleIdle ==
  /\ processed_urls = {}
  /\ art = [d \in Articles |-> NoArticle]
  /\ arrivals = <<>>
  /\ everMarked = {}

(***************************************************************************)
(* PostgresClient and the agents' retry_db_operation                       *)
(***************************************************************************)
\* what an invocation of the store operation can end with:
\*   not_connected  RuntimeError("Not connected to PostgreSQL"), pool is None
\*   runtime_other  any other RuntimeError
\*   too_many       asyncpg TooManyConnectionsError
\*   conn_missing   asyncpg ConnectionDoesNotExistError, a PostgresConnectionError
\*   conn_error     any other asyncpg PostgresConnectionError
\*   auth           asyncpg InvalidPasswordError
\*   no_db          asyncpg InvalidCatalogNameError ("database does not exist")
\*   other          e.g. a constraint violation or a syntax error
ConnErrors == {"conn_missing", "conn_error"}
FatalErrors == {"auth", "no_db"}
StoreErrors ==
  {"not_connected", "runtime_other", "too_many", "other"} \cup ConnErrors \cup FatalErrors

\* PostgresClient.fetch and its siblings: without a pool the call raises at
\* once; with one, the query runs and ends in any of the other ways
OperationOutcomes ==
  IF pool = "none" THEN {"not_connected"} ELSE {"ok"} \cup (StoreErrors \ {"not_connected"})

\* PostgresClient.fetch: sleep(1) before re-raising TooManyConnectionsError
ClientSleeps(o) == IF o = "too_many" THEN 1 ELSE 0

\* PostgresClient.connect: succeeds or re-raises what create_pool raised
ConnectOutcomes == {"ok", "too_many", "conn_error"} \cup FatalErrors

\* the except clause of SummariserAgent.retry_db_operation that catches an error
SummariserBranch(o) ==
  CASE o = "not_connected" -> "reconnect"
    [] o = "runtime_other" -> "reraise"
    [] o = "too_many" -> "sleep"
    [] o \in ConnErrors -> "reconnect"
    [] OTHER -> "remember_sleep"

\* the except clause of RankerAgent.retry_db_operation that catches an error
RankerBranch(o) ==
  CASE o = "conn_missing" -> "remember_sleep"
    [] o = "conn_error" -> "reconnect"
    [] OTHER -> "remember_sleep"

Branch(o) == IF svariant = "summariser" THEN SummariserBranch(o) ELSE RankerBranch(o)

NoResult == [kind |-> "none", value |-> None]

\* retries += 1 is the first statement of every except clause that does not
\* re-raise, ahead of the reconnect and its continue
BudgetUsed_FreeReconnect(b, c) == IF b = "reconnect" /\ c = "ok" THEN 0 ELSE 1
BudgetUsed(b, c) == 1

\* one iteration of the while loop: the operation is invoked; its result is
\* returned, or the matching except clause runs to its end
StoreAttempt(o, c) ==
  /\ spc = "loop"
  /\ retries < db_max_retries
  /\ o \in OperationOutcomes
  /\ sinv' = sinv + 1
  /\ firstTwo' = IF Len(firstTwo) < 2 THEN Append(firstTwo, o) ELSE firstTwo
  /\ onlyTransient' = (onlyTransient /\ o \in ConnErrors)
  /\ LET b == IF o = "ok" THEN "return" ELSE Branch(o)
         reconnects == b = "reconnect"
         \* the wrapper sleeps unless it returns, re-raises, or reconnects and continues
         wrapperSleeps == IF b \in {"return", "reraise"} \/ (reconnects /\ c = "ok") THEN 0 ELSE 1
         slept == ClientSleeps(o) + wrapperSleeps
         fatalNow == IF o \in FatalErrors THEN o
                     ELSE IF reconnects /\ c \in FatalErrors THEN c ELSE None
     IN  /\ spc' = IF b \in {"return", "reraise"} THEN "done" ELSE "loop"
         /\ sresult' = IF b = "return" THEN [kind |-> "returned", value |-> "rows"]
                       ELSE IF b = "reraise" THEN [kind |-> "raised", value |-> o]
                       ELSE sresult
         /\ retries' = IF b \in {"return", "reraise"} THEN retries
                       ELSE retries + BudgetUsed(b, c)
         /\ last_error' = IF b = "remember_sleep" THEN o ELSE last_error
         /\ pool' = IF reconnects /\ c = "ok" THEN "open" ELSE pool
         /\ sleeps12' = IF sinv = 0 THEN slept ELSE sleeps12
         /\ sleepsTotal' = sleepsTotal + slept
         /\ fatalSeen' = IF fatalSeen # None THEN fatalSeen ELSE fatalNow
         /\ afterFatal' = IF fatalSeen # None THEN afterFatal + 1 + slept
                          ELSE IF fatalNow # None THEN wrapperSleeps
                          ELSE afterFatal
  /\ UNCHANGED svariant
  /\ UNCHANGED nonStore

\* the statements after the loop: the summariser raises last_error, or a
\* RuntimeError when it is None; the ranker raises last_error only when it is
\* set, and otherwise falls off the end of the function, which returns None
StoreExhausted ==
  /\ spc = "loop"
  /\ retries >= db_max_retries
  /\ spc' = "done"
  /\ sresult' = IF last_error # None THEN [kind |-> "raised", value |-> last_error]
                ELSE IF svariant = "summariser"
                THEN [kind |-> "raised", value |-> "failed_after_retries"]
                ELSE [kind |-> "returned", value |-> None]
  /\ UNCHANGED <<svariant, pool, retries, last_error, sinv, firstTwo, sleeps12, sleepsTotal,
                 fatalSeen, afterFatal, onlyTransient>>
  /\ UNCHANGED nonStore

StoreIdle ==
  /\ svariant = "summariser"
  /\ pool = "none"
  /\ spc = "idle"
  /\ retries = 0
  /\ last_error = None
  /\ sinv = 0
  /\ firstTwo = <<>>
  /\ sleeps12 = 0
  /\ sleepsTotal = 0
  /\ fatalSeen = None
  /\ afterFatal = 0
  /\ onlyTransient = TRUE
  /\ sresult = NoResult

(***************************************************************************)
(* NatsClient.connect, one candidate at a time; NatsClient.close           *)
(***************************************************************************)
\* the primary URLs the constructor is given: one not among the fixed
\* fallbacks, each of the fixed ones, and one that differs by a trailing slash
CtorUrls == PrimaryUrls \cup Range(FixedFallbacks) \cup {"nats://nats:4222/"}

NoCtx == [nc |-> NoConn, js |-> NoConn, conns |-> 0, live |-> FALSE]

\* for i, url in enumerate(self.fallback_urls)
AttemptUrl_Reversed(i) == fallback_urls[Len(fallback_urls) + 1 - i]
AttemptUrl(i) == fallback_urls[i]

\* connect() is called; there is no test of self.nc or self.js before the loop
ConnectCall ==
  /\ cpc \in {"idle", "returned", "raised"}
  /\ cpc' = "loop"
  /\ ci' = 1
  /\ tried' = <<>>
  /\ cerr' = None
  /\ cctx' = [nc |-> nc, js |-> js, conns |-> Len(connUrl),
              live |-> (nc # NoConn /\ nc \notin closedConns /\ connUrl[nc] \in reachable)]
  /\ UNCHANGED <<closedConns, clientVars, envVars, brokerVars>>
  /\ UNCHANGED nonConn

\* nats.connect answers for the candidate: nc and js are replaced, add_stream
\* is tried with its errors swallowed, and connect returns True
ConnectAttemptOk ==
  /\ cpc = "loop"
  /\ ci <= Len(fallback_urls)
  /\ AttemptUrl(ci) \in reachable
  /\ Len(connUrl) < MaxConns
  /\ tried' = Append(tried, AttemptUrl(ci))
  /\ connUrl' = Append(connUrl, AttemptUrl(ci))
  /\ nc' = Len(connUrl) + 1
  /\ js' = Len(connUrl) + 1
  /\ \E injected \in {FALSE} \cup (IF faults > 0 THEN {TRUE} ELSE {}) :
       IF injected
       THEN faults' = faults - 1 /\ streams' = streams
       ELSE faults' = faults /\ streams' = AddStream(streams, "ai-radar", ConnectStreamConfig)
  /\ cpc' = "returned"
  /\ UNCHANGED <<ci, cerr, cctx, closedConns, url, msgs, reachable, netChanges>>
  /\ UNCHANGED nonConn

\* nats.connect raises for the candidate: the error is kept in last_error and
\* the loop goes on to the next candidate
ConnectAttemptFail ==
  /\ cpc = "loop"
  /\ ci <= Len(fallback_urls)
  /\ AttemptUrl(ci) \notin reachable
  /\ tried' = Append(tried, AttemptUrl(ci))
  /\ cerr' = AttemptUrl(ci)
  /\ ci' = ci + 1
  /\ UNCHANGED <<cpc, cctx, closedConns, clientVars, envVars, brokerVars>>
  /\ UNCHANGED nonConn

\* the list is exhausted: raise last_error
ConnectRaise ==
  /\ cpc = "loop"
  /\ ci > Len(fallback_urls)
  /\ cpc' = "raised"
  /\ UNCHANGED <<ci, tried, cerr, cctx, closedConns, clientVars, envVars, brokerVars>>
  /\ UNCHANGED nonConn

\* close(): nc.close() when nc is set; nc and js keep their values
ClientClose ==
  /\ nc # NoConn
  /\ nc \notin closedConns
  /\ closedConns' = closedConns \cup {nc}
  /\ UNCHANGED <<cpc, ci, tried, cerr, cctx, clientVars, envVars, brokerVars>>
  /\ UNCHANGED nonConn

ConnIdle ==
  /\ cpc = "idle"
  /\ ci = 0
  /\ tried = <<>>
  /\ cerr = None
  /\ cctx = NoCtx
  /\ closedConns = {}

StartIdle ==
  /\ stpc = "idle"
  /\ sremaining = <<>>
  /\ sattempt = 0
  /\ sfailed = {}
  /\ sattempted = {}

LifeIdle ==
  /\ akind = "base"
  /\ lpc = "idle"
  /\ battempt = 0
  /\ herrors = 0
  /\ is_ready = FALSE
  /\ closeCalls = {}
  /\ endedBy = "none"

NoTask == [holder |-> "none", subject |-> <<>>, from |-> "none"]

ChainIdle ==
  /\ cprefix = "ai-radar"
  /\ csubscribed = {}
  /\ task = [t \in 1..NumTasks |-> NoTask]

NoSummarize == [pc |-> "none", url |-> None, retries |-> 0, passed |-> "no"]

SumIdle ==
  /\ srows = [u \in ArticleUrls |-> 0]
  /\ srank = [u \in ArticleUrls |-> 0]
  /\ sdel = [d \in Deliveries |-> NoSummarize]

NoRank == [pc |-> "none", high |-> FALSE, updated |-> FALSE, attempt |-> 0, acks |-> 0]

RankIdle ==
  /\ rk = [t \in 1..NumTasks |-> NoRank]
  /\ shareMsgs = <<>>
  /\ shared = {}

\* subscribe calls made on one client
MaxSubCalls == 4
\* rows of ai_radar.sources
NumSources == 3
\* schedule_rss_updates runs
MaxCycles == 2

SubSubjects == {"ai-radar.tasks.rss_fetch", "ai-radar.tasks.summarize"}

SubsIdle ==
  /\ smap = [sj \in SubSubjects |-> 0]
  /\ sactive = {}
  /\ subCalls = 0

Sources == 1..NumSources

SchedIdle ==
  /\ schpc = "idle"
  /\ schQueue = <<>>
  /\ schActive = {}
  /\ schFetched = [sc \in Sources |-> 0]
  /\ schPub = {}
  /\ schTried = <<>>
  /\ schCycle = 0
  /\ schListed = {}

PubIdle ==
  /\ ppc = [p \in Publishers |-> "idle"]
  /\ attempt = [p \in Publishers |-> 0]
  /\ psubject = [p \in Publishers |-> None]
  /\ contacts = [p \in Publishers |-> 0]
  /\ sawUp = [p \in Publishers |-> FALSE]
  /\ lastUp = [p \in Publishers |-> FALSE]
  /\ pctx = [p \in Publishers |-> None]

RouterIdle ==
  /\ subscriptions = {}
  /\ rpc = [d \in Deliveries |-> "none"]
  /\ rsubject = [d \in Deliveries |-> None]
  /\ stubAcks = [d \in Deliveries |-> 0]
  /\ brokerAcks = [d \in Deliveries |-> 0]
  /\ handlerRaised = [d \in Deliveries |-> FALSE]

NoInfo == [result |-> "none", retention |-> None]

FetchIdle ==
  /\ streamName = "ai-radar"
  /\ subjectPrefix = "ai-radar"
  /\ consumers = {}
  /\ subs = {}
  /\ fpc = "init"
  /\ setupRun = 0
  /\ fattempt = 0
  /\ jsCalls = <<>>
  /\ infoResult = NoInfo

InitPublish ==
  /\ url \in PrimaryUrls
  /\ nc = NoConn
  /\ js = NoConn
  /\ connUrl = <<>>
  /\ reachable \in {{}, Range(FallbackUrls(url))}
  /\ netChanges = 0
  /\ faults = 0
  /\ streams \in {[n \in StreamNames |-> NoStream],
                  [n \in StreamNames |-> IF n = "ai-radar" THEN ConnectStreamConfig ELSE NoStream]}
  /\ msgs = [n \in StreamNames |-> <<>>]
  /\ PubIdle
  /\ RouterIdle
  /\ FetchIdle
  /\ SecretIdle
  /\ ArticleIdle
  /\ StoreIdle
  /\ ConnIdle
  /\ StartIdle
  /\ LifeIdle
  /\ ChainIdle
  /\ SumIdle
  /\ RankIdle
  /\ SubsIdle
  /\ SchedIdle

NextPublish ==
  \/ NetChange
  \/ ClientConnect
  \/ \E p \in Publishers :
       \/ PublishCall(p)
       \/ PublishNeedsConnect(p)
       \/ PublishGiveUp(p)
       \/ PublishHasHandle(p)
       \/ PublishConnectOk(p)
       \/ PublishConnectFail(p)
       \/ PublishSendOk(p)
       \/ PublishSendFail(p)

SpecPublish == InitPublish /\ [][NextPublish]_vars

(***************************************************************************)
(* Claims about NatsClient.publish                                         *)
(***************************************************************************)
\* C1: when the broker is unreachable in every iteration, publish raises after
\* exactly max_retries = 5 attempts, each of which contacted the broker (a
\* send, or a connect), whether or not a JetStream handle existed at the call.
C1_RaisesAfterExactlyFiveAttempts ==
  \A p \in Publishers :
    (ppc[p] = "raised" /\ ~sawUp[p]) => contacts[p] = max_retries

\* C2: publish does not raise out of an iteration in which the broker is
\* reachable, the 5th iteration of a disconnected caller included: a
\* disconnected caller connects and sends in every one of its iterations.
C2_ReturnsWhenReachableAtAnyAttempt ==
  \A p \in Publishers : ppc[p] = "raised" => ~lastUp[p]

\* C6: a publish from a disconnected client with the stream absent, and no
\* other publisher, leaves the stream created with work-queue retention and
\* the message stored as sequence 1.
C6_PublishCreatesWorkQueueStream ==
  \A p \in Publishers :
    ( /\ ppc[p] = "returned"
      /\ pctx[p].disconnected
      /\ pctx[p].streamAbsent
      /\ pctx[p].connected
      /\ \A q \in Publishers \ {p} : ppc[q] = "idle" )
    => /\ streams["ai-radar"].retention = "workqueue"
       /\ Len(msgs["ai-radar"]) = 1
       /\ msgs["ai-radar"][1].by = p

(***************************************************************************)
(* Router.start and NatsClient.subscribe: deliveries to wrapped_callback   *)
(***************************************************************************)
\* the subjects the ranker and the summariser register with router.on
RouterSubjects == {"tasks.rank", "tasks.summarize"}

\* Router.start: subscribe f"ai-radar.{subject}" on the core connection
RouterSubscribe(s) ==
  /\ nc # NoConn
  /\ connUrl[nc] \in reachable
  /\ s \notin subscriptions
  /\ subscriptions' = subscriptions \cup {s}
  /\ UNCHANGED <<clientVars, envVars, brokerVars, rpc, rsubject, stubAcks, brokerAcks, handlerRaised>>
  /\ UNCHANGED nonRouter

\* the connection hands a message of a subscribed subject to wrapped_callback
RouterDeliver(d) ==
  /\ rpc[d] = "none"
  /\ \E s \in subscriptions : rsubject' = [rsubject EXCEPT ![d] = s]
  /\ rpc' = [rpc EXCEPT ![d] = "decode"]
  /\ UNCHANGED <<clientVars, envVars, brokerVars, subscriptions, stubAcks, brokerAcks, handlerRaised>>
  /\ UNCHANGED nonRouter

\* json.loads(msg.data.decode()): a payload that does not decode raises into
\* the except clause of wrapped_callback, which logs and returns
RouterDecode(d) ==
  /\ rpc[d] = "decode"
  /\ \E wellFormed \in BOOLEAN :
       rpc' = [rpc EXCEPT ![d] = IF wellFormed THEN "handler" ELSE "done"]
  /\ UNCHANGED <<clientVars, envVars, brokerVars, subscriptions, rsubject, stubAcks, brokerAcks, handlerRaised>>
  /\ UNCHANGED nonRouter

\* the handler calls ack() on the Message stand-in it built: the method body is
\* pass, nothing is sent to the broker
HandlerStubAck(d) ==
  /\ rpc[d] = "handler"
  /\ stubAcks[d] = 0
  /\ stubAcks' = [stubAcks EXCEPT ![d] = 1]
  /\ UNCHANGED <<clientVars, envVars, brokerVars, subscriptions, rpc, rsubject, brokerAcks, handlerRaised>>
  /\ UNCHANGED nonRouter

HandlerReturn(d) ==
  /\ rpc[d] = "handler"
  /\ rpc' = [rpc EXCEPT ![d] = "done"]
  /\ UNCHANGED <<clientVars, envVars, brokerVars, subscriptions, rsubject, stubAcks, brokerAcks, handlerRaised>>
  /\ UNCHANGED nonRouter

\* the handler raises: wrapped_callback catches, logs and returns
HandlerRaise(d) ==
  /\ rpc[d] = "handler"
  /\ rpc' = [rpc EXCEPT ![d] = "done"]
  /\ handlerRaised' = [handlerRaised EXCEPT ![d] = TRUE]
  /\ UNCHANGED <<clientVars, envVars, brokerVars, subscriptions, rsubject, stubAcks, brokerAcks>>
  /\ UNCHANGED nonRouter

InitRouter ==
  /\ url \in PrimaryUrls
  /\ nc = NoConn
  /\ js = NoConn
  /\ connUrl = <<>>
  /\ reachable = Range(FallbackUrls(url))
  /\ netChanges = 0
  /\ faults = 0
  /\ streams = [n \in StreamNames |-> NoStream]
  /\ msgs = [n \in StreamNames |-> <<>>]
  /\ PubIdle
  /\ RouterIdle
  /\ FetchIdle
  /\ SecretIdle
  /\ ArticleIdle
  /\ StoreIdle
  /\ ConnIdle
  /\ StartIdle
  /\ LifeIdle
  /\ ChainIdle
  /\ SumIdle
  /\ RankIdle
  /\ SubsIdle
  /\ SchedIdle

NextRouter ==
  \/ ClientConnect
  \/ \E s \in RouterSubjects : RouterSubscribe(s)
  \/ \E d \in Deliveries :
       \/ RouterDeliver(d)
       \/ RouterDecode(d)
       \/ HandlerStubAck(d)
       \/ HandlerReturn(d)
       \/ HandlerRaise(d)

SpecRouter == InitRouter /\ [][NextRouter]_vars

\* C3: a delivery whose handler raised has been acknowledged to the broker
\* exactly once when wrapped_callback is done with it.
C3_RaisingHandlerAckedOnce ==
  \A d \in Deliveries :
    (rpc[d] = "done" /\ handlerRaised[d]) => brokerAcks[d] = 1

(***************************************************************************)
(* FetcherAgent.setup: connect loop, stream reconciliation, consumers      *)
(***************************************************************************)
Durables == {"fetcher-rss", "fetcher-article"}

\* the descriptor the fetcher wants: work-queue retention, subjects prefix.>,
\* no message limit
DesiredStreamConfig ==
  [retention |-> "workqueue", prefix |-> subjectPrefix, max_msgs |-> -1]

\* the stream name written into both delete_consumer calls
DeleteConsumerStream == "ai-radar"

FaultChoices == IF faults > 0 THEN {FALSE, TRUE} ELSE {FALSE}
Inject(injected) == faults' = IF injected THEN faults - 1 ELSE faults

\* a JetStream call gets its answer when the connection of the handle reaches
\* the broker and no API error is injected
Answered(injected) == js # NoConn /\ connUrl[js] \in reachable /\ ~injected

Called(op) == jsCalls' = Append(jsCalls, op)

\* current_retention != desired_retention
RetentionDiffers_Always(current, desired) == TRUE
RetentionDiffers(current, desired) == current # desired

\* where setup() goes after stream_info answered with an existing stream
AfterStreamFound_InPlace(differs) == "update_stream"
AfterStreamFound(differs) == IF differs THEN "delete_stream" ELSE "update_stream"

\* where setup() goes when stream_info raised an error other than NotFoundError:
\* the JSAPIError clause re-raises, any other exception is not caught at all
AfterStreamInfoError_Swallowed == "del_rss"
AfterStreamInfoError == "aborted"

\* FetcherAgent.run calls setup(); http client and MinIO bucket come first, and
\* setup_minio re-raises its errors
FSetupStart ==
  /\ fpc = "init"
  /\ setupRun = 0
  /\ setupRun' = 1
  /\ \E minioOk \in BOOLEAN : fpc' = IF minioOk THEN "connect" ELSE "aborted"
  /\ fattempt' = 1
  /\ UNCHANGED <<clientVars, envVars, brokerVars, streamName, subjectPrefix, consumers, subs,
                 jsCalls, infoResult>>
  /\ UNCHANGED nonFetch

\* setup() returned in FetcherAgent.run: super().run() calls self.setup() again
FSetupAgain ==
  /\ fpc = "ready"
  /\ setupRun = 1
  /\ setupRun' = 2
  /\ \E minioOk \in BOOLEAN : fpc' = IF minioOk THEN "connect" ELSE "aborted"
  /\ fattempt' = 1
  /\ jsCalls' = <<>>
  /\ infoResult' = NoInfo
  /\ UNCHANGED <<clientVars, envVars, brokerVars, streamName, subjectPrefix, consumers, subs>>
  /\ UNCHANGED nonFetch

\* the second setup() returned in BaseAgent.run: the agent sleeps in its loop
FRunning ==
  /\ fpc = "ready"
  /\ setupRun = 2
  /\ fpc' = "running"
  /\ UNCHANGED <<clientVars, envVars, brokerVars, streamName, subjectPrefix, consumers, subs,
                 setupRun, fattempt, jsCalls, infoResult>>
  /\ UNCHANGED nonFetch

FConnectOk ==
  /\ fpc = "connect"
  /\ ConnectEffect
  /\ fpc' = "stream_info"
  /\ UNCHANGED <<reachable, netChanges, streamName, subjectPrefix, consumers, subs,
                 setupRun, fattempt, jsCalls, infoResult>>
  /\ UNCHANGED nonFetch

FConnectFail ==
  /\ fpc = "connect"
  /\ ~ConnectSucceeds
  /\ IF fattempt = 5
     THEN fpc' = "aborted" /\ fattempt' = fattempt
     ELSE fpc' = "connect" /\ fattempt' = fattempt + 1
  /\ UNCHANGED <<clientVars, envVars, brokerVars, streamName, subjectPrefix, consumers, subs,
                 setupRun, jsCalls, infoResult>>
  /\ UNCHANGED nonFetch

\* stream_info(stream_name): the retention found, NotFoundError, or another error
FStreamInfo ==
  /\ fpc = "stream_info"
  /\ Called("stream_info")
  /\ \E injected \in FaultChoices :
       /\ Inject(injected)
       /\ IF ~Answered(injected)
          THEN /\ infoResult' = [result |-> "error", retention |-> None]
               /\ fpc' = AfterStreamInfoError
          ELSE IF streams[streamName] = NoStream
          THEN /\ infoResult' = [result |-> "notfound", retention |-> None]
               /\ fpc' = "add_stream"
          ELSE /\ infoResult' = [result |-> "found", retention |-> streams[streamName].retention]
               /\ fpc' = AfterStreamFound(RetentionDiffers(streams[streamName].retention,
                                                           DesiredStreamConfig.retention))
  /\ UNCHANGED <<clientVars, reachable, netChanges, brokerVars, streamName, subjectPrefix,
                 consumers, subs, setupRun, fattempt>>
  /\ UNCHANGED nonFetch

\* delete_stream(name=stream_name): the stream goes with its messages and its
\* consumers; an error propagates out of setup()
FDeleteStream ==
  /\ fpc = "delete_stream"
  /\ Called("delete_stream")
  /\ \E injected \in FaultChoices :
       /\ Inject(injected)
       /\ IF Answered(injected) /\ streams[streamName] # NoStream
          THEN /\ streams' = [streams EXCEPT ![streamName] = NoStream]
               /\ msgs' = [msgs EXCEPT ![streamName] = <<>>]
               /\ consumers' = {c \in consumers : c.stream # streamName}
               /\ fpc' = "add_stream"
          ELSE /\ UNCHANGED <<streams, msgs, consumers>>
               /\ fpc' = "aborted"
  /\ UNCHANGED <<clientVars, reachable, netChanges, streamName, subjectPrefix, subs,
                 setupRun, fattempt, infoResult>>
  /\ UNCHANGED nonFetch

\* add_stream(config=desired_stream_config), after a delete or after NotFoundError
FAddStream ==
  /\ fpc = "add_stream"
  /\ Called("add_stream")
  /\ \E injected \in FaultChoices :
       /\ Inject(injected)
       /\ IF Answered(injected) /\ AddStreamOk(streams, streamName, DesiredStreamConfig)
          THEN /\ streams' = AddStream(streams, streamName, DesiredStreamConfig)
               /\ fpc' = "del_rss"
          ELSE /\ streams' = streams
               /\ fpc' = "aborted"
  /\ UNCHANGED <<clientVars, reachable, netChanges, msgs, streamName, subjectPrefix, consumers,
                 subs, setupRun, fattempt, infoResult>>
  /\ UNCHANGED nonFetch

\* update_stream(config=desired_stream_config): same retention, the other fields
\* are replaced in place
FUpdateStream ==
  /\ fpc = "update_stream"
  /\ Called("update_stream")
  /\ \E injected \in FaultChoices :
       /\ Inject(injected)
       /\ IF /\ Answered(injected)
             /\ streams[streamName] # NoStream
             /\ streams[streamName].retention = DesiredStreamConfig.retention
             /\ ~Overlaps(streams, streamName, DesiredStreamConfig)
          THEN /\ streams' = [streams EXCEPT ![streamName] = DesiredStreamConfig]
               /\ fpc' = "del_rss"
          ELSE /\ streams' = streams
               /\ fpc' = "aborted"
  /\ UNCHANGED <<clientVars, reachable, netChanges, msgs, streamName, subjectPrefix, consumers,
                 subs, setupRun, fattempt, infoResult>>
  /\ UNCHANGED nonFetch

DurableAt(pc) == IF pc \in {"del_rss", "sub_rss"} THEN "fetcher-rss" ELSE "fetcher-article"

\* delete_consumer(stream="ai-radar", consumer=durable): NotFoundError and every
\* other exception are logged, setup() goes on to subscribe
FDeleteConsumer ==
  /\ fpc \in {"del_rss", "del_article"}
  /\ Called("delete_consumer")
  /\ \E injected \in FaultChoices :
       /\ Inject(injected)
       /\ consumers' =
            IF Answered(injected)
            THEN {c \in consumers :
                    ~(c.stream = DeleteConsumerStream /\ c.durable = DurableAt(fpc))}
            ELSE consumers
  /\ fpc' = IF fpc = "del_rss" THEN "sub_rss" ELSE "sub_article"
  /\ UNCHANGED <<clientVars, reachable, netChanges, brokerVars, streamName, subjectPrefix, subs,
                 setupRun, fattempt, infoResult>>
  /\ UNCHANGED nonFetch

ConsumerOf(sn, d) == {c \in consumers : c.stream = sn /\ c.durable = d}

\* js.subscribe(subject, cb, stream=stream_name, durable, config): the library
\* looks the consumer up; absent, it creates the consumer with a fresh deliver
\* subject and subscribes to it; present, it either refuses (the consumer is
\* bound already) or subscribes to the deliver subject of the existing consumer.
\* Any error propagates out of setup().
FSubscribe ==
  /\ fpc \in {"sub_rss", "sub_article"}
  /\ Called("subscribe")
  /\ \E injected \in FaultChoices, joins \in BOOLEAN :
       /\ Inject(injected)
       /\ LET d == DurableAt(fpc)
              next == IF fpc = "sub_rss" THEN "del_article" ELSE "ready"
              fresh == [stream |-> streamName, durable |-> d, deliver |-> <<js, d>>]
          IN  IF ~Answered(injected) \/ streams[streamName] = NoStream
                 \/ streams[streamName].prefix # subjectPrefix
              THEN /\ UNCHANGED <<consumers, subs>>
                   /\ fpc' = "aborted"
              ELSE IF ConsumerOf(streamName, d) = {}
              THEN /\ consumers' = consumers \cup {fresh}
                   /\ subs' = subs \cup {[conn |-> js, durable |-> d, inbox |-> fresh.deliver]}
                   /\ fpc' = next
              ELSE IF joins
              THEN /\ consumers' = consumers
                   /\ subs' = subs \cup
                        {[conn |-> js, durable |-> d, inbox |-> c.deliver] :
                           c \in ConsumerOf(streamName, d)}
                   /\ fpc' = next
              ELSE /\ UNCHANGED <<consumers, subs>>
                   /\ fpc' = "aborted"
  /\ UNCHANGED <<clientVars, reachable, netChanges, brokerVars, streamName, subjectPrefix,
                 setupRun, fattempt, infoResult>>
  /\ UNCHANGED nonFetch

\* another agent (scheduler, summariser, ranker, API) connects: its connect()
\* adds the "ai-radar" stream when the broker has none
OtherAgentConnect ==
  /\ reachable # {}
  /\ streams' = AddStream(streams, "ai-radar", ConnectStreamConfig)
  /\ streams' # streams
  /\ UNCHANGED <<clientVars, envVars, msgs, agentVars>>

StreamStates(n) ==
  {NoStream} \cup {[retention |-> r, prefix |-> n, max_msgs |-> m] :
                     r \in {"limits", "workqueue"}, m \in {-1}}

InitFetcher ==
  /\ url \in {"nats://nats:4222"}
  /\ nc = NoConn
  /\ js = NoConn
  /\ connUrl = <<>>
  /\ reachable \in {{}, Range(FallbackUrls(url))}
  /\ netChanges = 0
  /\ faults = MaxFaults
  /\ streamName \in StreamNames
  /\ subjectPrefix \in Prefixes
  /\ streams \in [StreamNames -> UNION {StreamStates(n) : n \in StreamNames}]
  /\ \A n \in StreamNames : streams[n] \in StreamStates(n)
  /\ msgs = [n \in StreamNames |-> <<>>]
  /\ \E left \in BOOLEAN :
       consumers = IF left /\ streams[streamName] # NoStream
                   THEN {[stream |-> streamName, durable |-> d, deliver |-> <<0, d>>] :
                           d \in Durables}
                   ELSE {}
  /\ subs = {}
  /\ fpc = "init"
  /\ setupRun = 0
  /\ fattempt = 0
  /\ jsCalls = <<>>
  /\ infoResult = NoInfo
  /\ PubIdle
  /\ RouterIdle
  /\ SecretIdle
  /\ ArticleIdle
  /\ StoreIdle
  /\ ConnIdle
  /\ StartIdle
  /\ LifeIdle
  /\ ChainIdle
  /\ SumIdle
  /\ RankIdle
  /\ SubsIdle
  /\ SchedIdle

NextFetcher ==
  \/ NetChange
  \/ OtherAgentConnect
  \/ FSetupStart
  \/ FSetupAgain
  \/ FRunning
  \/ FConnectOk
  \/ FConnectFail
  \/ FStreamInfo
  \/ FDeleteStream
  \/ FAddStream
  \/ FUpdateStream
  \/ FDeleteConsumer
  \/ FSubscribe

SpecFetcher == InitFetcher /\ [][NextFetcher]_vars

(***************************************************************************)
(* Claims about stream reconciliation and the durable consumers            *)
(***************************************************************************)
IsPrefix(a, b) == Len(a) <= Len(b) /\ a = SubSeq(b, 1, Len(a))

StreamOps == {"stream_info", "delete_stream", "add_stream", "update_stream"}
IsStreamOp(op) == op \in StreamOps
streamCalls == SelectSeq(jsCalls, IsStreamOp)

\* positions of setup() after the try block of the reconciliation
PastReconcile == {"del_rss", "sub_rss", "del_article", "sub_article", "ready", "running"}

\* C4: the second execution of the reconcile step, after a first one that ran
\* to the end with the same desired descriptor, issues no delete_stream.
C4_SecondReconcileDeletesNothing ==
  setupRun = 2 => "delete_stream" \notin Range(jsCalls)

C4_Witness ==
  /\ setupRun = 2
  /\ fpc = "running"
  /\ streamCalls = <<"stream_info", "update_stream">>

\* C5: when stream_info finds a retention other than the desired one, the
\* stream calls of the run are stream_info, one delete_stream, one add_stream
\* (in that order, none other, the add with the desired descriptor); when it
\* finds the desired retention they are stream_info and one update_stream.
C5_ReconcileCallSequence ==
  /\ (infoResult.result = "found" /\ infoResult.retention # DesiredStreamConfig.retention)
       => /\ IsPrefix(streamCalls, <<"stream_info", "delete_stream", "add_stream">>)
          /\ fpc \in PastReconcile
               => /\ streamCalls = <<"stream_info", "delete_stream", "add_stream">>
                  /\ streams[streamName] = DesiredStreamConfig
  /\ (infoResult.result = "found" /\ infoResult.retention = DesiredStreamConfig.retention)
       => /\ IsPrefix(streamCalls, <<"stream_info", "update_stream">>)
          /\ fpc \in PastReconcile
               => /\ streamCalls = <<"stream_info", "update_stream">>
                  /\ streams[streamName] = DesiredStreamConfig

C5_Witness ==
  /\ infoResult.result = "found"
  /\ infoResult.retention = "limits"
  /\ fpc \in PastReconcile
  /\ streamCalls = <<"stream_info", "delete_stream", "add_stream">>

\* C7: after NotFoundError the only further stream call is add_stream with the
\* desired descriptor; after any other error of stream_info setup() is aborted,
\* no further JetStream call was issued and the run holds no subscription.
C7_StreamInfoErrorHandling ==
  /\ infoResult.result = "notfound"
       => /\ IsPrefix(streamCalls, <<"stream_info", "add_stream">>)
          /\ fpc \in PastReconcile
               => /\ streamCalls = <<"stream_info", "add_stream">>
                  /\ streams[streamName] = DesiredStreamConfig
  /\ infoResult.result = "error"
       => /\ fpc = "aborted"
          /\ jsCalls = <<"stream_info">>
          /\ {b \in subs : b.conn = js} = {}

C7_Witness ==
  /\ infoResult.result = "error"
  /\ fpc = "aborted"
  /\ setupRun = 2
  /\ consumers # {}

InitSecrets ==
  /\ secrets_cache = [m \in Managers |-> [n \in SecretNames |-> None]]
  /\ vaultMode \in {"no_client", "up"}
  /\ \E n \in SecretNames :
       /\ \E v \in {None, "vault-1"} :
            vaultStore = [k \in VaultKeys |-> IF k = VaultPathKey(n) THEN v ELSE None]
       /\ \E v \in {None, "env-1"} : envVar = Only(n, v)
       /\ \E v \in {None, Unreadable, "file-1"} : envFile = Only(n, v)
       /\ \E v \in {None, "mounted-1"} : mounted = Only(n, v)
  /\ tierChanges = 0
  /\ calls = 0
  /\ resolved = [n \in SecretNames |-> None]
  /\ lastCall = NoCall
  /\ url = "nats://nats:4222"
  /\ nc = NoConn
  /\ js = NoConn
  /\ connUrl = <<>>
  /\ reachable = {}
  /\ netChanges = 0
  /\ faults = 0
  /\ streams = [n \in StreamNames |-> NoStream]
  /\ msgs = [n \in StreamNames |-> <<>>]
  /\ PubIdle
  /\ RouterIdle
  /\ FetchIdle
  /\ ArticleIdle
  /\ StoreIdle
  /\ ConnIdle
  /\ StartIdle
  /\ LifeIdle
  /\ ChainIdle
  /\ SumIdle
  /\ RankIdle
  /\ SubsIdle
  /\ SchedIdle

NextSecrets ==
  \/ \E m \in Managers, n \in SecretNames, d \in Defaults : GetSecret(m, n, d)
  \/ VaultChange
  \/ VaultModeChange
  \/ EnvChange
  \/ FileChange
  \/ MountedChange

SpecSecrets == InitSecrets /\ [][NextSecrets]_vars

\* the value of the highest-priority tier that held one when the call was made
HighestTierValue(c) ==
  IF c.pre.cache # None THEN c.pre.cache
  ELSE IF c.pre.vault # None THEN c.pre.vault
  ELSE IF c.pre.env # None THEN c.pre.env
  ELSE IF c.pre.file # None THEN c.pre.file
  ELSE IF c.pre.mounted # None THEN c.pre.mounted
  ELSE c.default

\* C9: for every name and every combination of tier contents, get_secret returns
\* the value of the highest-priority tier that holds one, in the order cache,
\* vault, environment variable, <name>_FILE file, mounted secret file, default;
\* so a value the vault holds wins over an environment variable of the name.
C9_HighestPriorityTierWins ==
  lastCall # NoCall => lastCall.value = HighestTierValue(lastCall)

\* C10: once the process has resolved a name from a tier other than the default,
\* every later get_secret call for that name returns the identical value and
\* consults neither the vault, nor the environment, nor the files.
C10_ResolvedValueIsSticky ==
  (lastCall # NoCall /\ lastCall.pre.resolved # None) =>
    /\ lastCall.value = lastCall.pre.resolved
    /\ lastCall.consulted = {}

HighestConsultedValue(c) ==
  IF "vault" \in c.consulted /\ c.pre.vault # None THEN c.pre.vault
  ELSE IF c.pre.env # None THEN c.pre.env
  ELSE IF c.pre.file # None THEN c.pre.file
  ELSE IF c.pre.mounted # None THEN c.pre.mounted
  ELSE c.default

InitArticle ==
  /\ processed_urls = {}
  /\ art = [d \in Articles |-> NoArticle]
  /\ arrivals = <<>>
  /\ everMarked = {}
  /\ url = "nats://nats:4222"
  /\ nc = NoConn
  /\ js = NoConn
  /\ connUrl = <<>>
  /\ reachable = {}
  /\ netChanges = 0
  /\ faults = 0
  /\ streams = [n \in StreamNames |-> NoStream]
  /\ msgs = [n \in StreamNames |-> <<>>]
  /\ PubIdle
  /\ RouterIdle
  /\ FetchIdle
  /\ SecretIdle
  /\ StoreIdle
  /\ ConnIdle
  /\ StartIdle
  /\ LifeIdle
  /\ ChainIdle
  /\ SumIdle
  /\ RankIdle
  /\ SubsIdle
  /\ SchedIdle

NextArticle ==
  \/ \E d \in Articles, u \in ArticleUrls : ArticleDeliver(d, u)
  \/ \E d \in Articles : ArticleBadPayload(d)
  \/ \E d \in Articles : ArticleFetchOk(d)
  \/ \E d \in Articles : ArticleFetchFail(d)
  \/ \E d \in Articles : ArticleStoreOk(d)
  \/ \E d \in Articles : ArticleStoreFail(d)
  \/ \E d \in Articles : ArticlePublish(d)
  \/ \E d \in Articles : ArticleTail(d)

SpecArticle == InitArticle /\ [][NextArticle]_vars

\* C12: a URL is reported unseen until a delivery with that exact URL has marked
\* it and seen for every later delivery; processed_urls only grows; a delivery
\* whose URL is already in it is acknowledged once and neither fetches, nor
\* stores, nor publishes anything.
C12_DedupGuard ==
  /\ everMarked = processed_urls
  /\ \A i \in 1..Len(arrivals) :
       (art[arrivals[i]].seen = "seen") =
         (\E j \in 1..(i - 1) : art[arrivals[j]].url = art[arrivals[i]].url)
  /\ \A d \in Articles :
       art[d].seen = "seen" =>
         /\ art[d].pc = "done"
         /\ art[d].acks = 1
         /\ art[d].gets = 0
         /\ ~art[d].stored
         /\ ~art[d].published

\* a URL is delivered, delivered again, and the near-identical URL with a
\* trailing slash is delivered after that
C12_Witness ==
  /\ Len(arrivals) = 3
  /\ art[arrivals[1]].url = "http://a/x" /\ art[arrivals[1]].seen = "unseen"
  /\ art[arrivals[2]].url = "http://a/x" /\ art[arrivals[2]].seen = "seen"
  /\ art[arrivals[3]].url = "http://a/x/" /\ art[arrivals[3]].seen = "unseen"
  /\ art[arrivals[1]].pc = "store"

(***************************************************************************)
(* retry_db_operation: specification                                       *)
(***************************************************************************)
\* a call of retry_db_operation on either agent, the pool open or not
InitStore ==
  /\ svariant \in {"summariser", "ranker"}
  /\ pool \in {"none", "open"}
  /\ spc = "loop"
  /\ retries = 0
  /\ last_error = None
  /\ sinv = 0
  /\ firstTwo = <<>>
  /\ sleeps12 = 0
  /\ sleepsTotal = 0
  /\ fatalSeen = None
  /\ afterFatal = 0
  /\ onlyTransient = TRUE
  /\ sresult = NoResult
  /\ url = "nats://nats:4222"
  /\ nc = NoConn
  /\ js = NoConn
  /\ connUrl = <<>>
  /\ reachable = {}
  /\ netChanges = 0
  /\ faults = 0
  /\ streams = [n \in StreamNames |-> NoStream]
  /\ msgs = [n \in StreamNames |-> <<>>]
  /\ PubIdle
  /\ RouterIdle
  /\ FetchIdle
  /\ SecretIdle
  /\ ArticleIdle
  /\ ConnIdle
  /\ StartIdle
  /\ LifeIdle
  /\ ChainIdle
  /\ SumIdle
  /\ RankIdle
  /\ SubsIdle
  /\ SchedIdle

NextStore ==
  \/ \E o \in {"ok"} \cup StoreErrors, c \in ConnectOutcomes : StoreAttempt(o, c)
  \/ StoreExhausted

SpecStore == InitStore /\ [][NextStore]_vars

\* C13: when the first invocation fails with too many connections and the
\* second succeeds, the call returns the result and exactly one delay elapsed
\* between the two invocations, counting the client's and the wrapper's sleeps.
C13_OneDelayBeforeSecondAttempt ==
  (spc = "done" /\ firstTwo = <<"too_many", "ok">>) =>
    /\ sresult = [kind |-> "returned", value |-> "rows"]
    /\ sleeps12 = 1

\* C14: an authentication or missing-database error, raised by the operation or
\* by a reconnect during a retry, propagates at once: the call ends raising it,
\* with no later invocation and no sleep.
C14_FatalPropagatesImmediately ==
  fatalSeen # None =>
    /\ spc = "done"
    /\ sresult = [kind |-> "raised", value |-> fatalSeen]
    /\ afterFatal = 0

\* C15: an error that is neither fatal nor a connection or too-many-connections
\* error propagates on its first occurrence, the operation invoked exactly once.
C15_OtherErrorNotRetried ==
  (sinv >= 1 /\ firstTwo[1] = "other") =>
    /\ sinv = 1
    /\ spc = "done"
    /\ sresult = [kind |-> "raised", value |-> "other"]

\* C16: the call returns the result of a successful invocation or raises; when
\* every attempt failed with a connection error it raises and never returns
\* normally.
C16_ReturnsResultOrRaises ==
  spc = "done" =>
    \/ sresult.kind = "raised"
    \/ sresult = [kind |-> "returned", value |-> "rows"] /\ ~onlyTransient /\ retries < db_max_retries

(***************************************************************************)
(* NatsClient.connect and close: specification                             *)
(***************************************************************************)
\* after NatsClient.__init__ with any of the primary URLs
InitClient ==
  /\ url \in CtorUrls
  /\ nc = NoConn
  /\ js = NoConn
  /\ connUrl = <<>>
  /\ reachable \in ReachSets(FallbackUrls(url))
  /\ netChanges = 0
  /\ faults = 0
  /\ streams = [n \in StreamNames |-> NoStream]
  /\ msgs = [n \in StreamNames |-> <<>>]
  /\ cpc = "idle"
  /\ ci = 0
  /\ tried = <<>>
  /\ cerr = None
  /\ cctx = NoCtx
  /\ closedConns = {}
  /\ PubIdle
  /\ RouterIdle
  /\ FetchIdle
  /\ SecretIdle
  /\ ArticleIdle
  /\ StoreIdle
  /\ StartIdle
  /\ LifeIdle
  /\ ChainIdle
  /\ SumIdle
  /\ RankIdle
  /\ SubsIdle
  /\ SchedIdle

NextClient ==
  \/ NetChange
  \/ ConnectCall
  \/ ConnectAttemptOk
  \/ ConnectAttemptFail
  \/ ConnectRaise
  \/ ClientClose

SpecClient == InitClient /\ [][NextClient]_vars

(***************************************************************************)
(* NatsClient.publish on a client that was connected: specification        *)
(***************************************************************************)
\* a client whose connect() has returned, the broker reachable; or a client
\* that has not connected yet
InitReconnect ==
  /\ url \in PrimaryUrls
  /\ \/ /\ nc = 1
        /\ js = 1
        /\ connUrl = <<url>>
        /\ reachable = Range(FallbackUrls(url))
        /\ cpc = "returned"
        /\ ci = 1
        /\ tried = <<url>>
     \/ /\ nc = NoConn
        /\ js = NoConn
        /\ connUrl = <<>>
        /\ reachable \in {{}, Range(FallbackUrls(url))}
        /\ cpc = "idle"
        /\ ci = 0
        /\ tried = <<>>
  /\ netChanges = 0
  /\ faults = 0
  /\ streams = [n \in StreamNames |-> IF n = "ai-radar" THEN ConnectStreamConfig ELSE NoStream]
  /\ msgs = [n \in StreamNames |-> <<>>]
  /\ cerr = None
  /\ cctx = NoCtx
  /\ closedConns = {}
  /\ PubIdle
  /\ RouterIdle
  /\ FetchIdle
  /\ SecretIdle
  /\ ArticleIdle
  /\ StoreIdle
  /\ StartIdle
  /\ LifeIdle
  /\ ChainIdle
  /\ SumIdle
  /\ RankIdle
  /\ SubsIdle
  /\ SchedIdle

NextReconnect ==
  \/ NetChange
  \/ ClientClose
  \/ ClientConnect
  \/ PublishCall(1)
  \/ PublishNeedsConnect(1)
  \/ PublishGiveUp(1)
  \/ PublishHasHandle(1)
  \/ PublishConnectOk(1)
  \/ PublishConnectFail(1)
  \/ PublishSendOk(1)
  \/ PublishSendFail(1)

SpecReconnect == InitReconnect /\ [][NextReconnect]_vars

\* C17: connect attempts the candidates strictly in list order, stops at the
\* first one that connects, and when every candidate failed raises the error
\* of the last candidate.
C17_ConnectTriesInOrder ==
  /\ Len(tried) <= Len(fallback_urls)
  /\ \A k \in 1..Len(tried) : tried[k] = fallback_urls[k]
  /\ cpc = "returned" =>
       /\ Len(tried) >= 1
       /\ connUrl[nc] = tried[Len(tried)]
       /\ Len(tried) > 1 => cerr = tried[Len(tried) - 1]
  /\ cpc = "raised" =>
       /\ tried = fallback_urls
       /\ cerr = fallback_urls[Len(fallback_urls)]

\* the first two candidates failed and the third connected
C17_Witness ==
  /\ cpc = "returned"
  /\ Len(tried) = 3
  /\ Len(fallback_urls) > 3

\* C18: connect on a client that is connected is a no-op: no new connection is
\* opened and nc and js are what they were.
C18_ConnectWhenConnectedIsNoOp ==
  (cpc = "returned" /\ cctx.live) =>
    /\ nc = cctx.nc
    /\ js = cctx.js
    /\ Len(connUrl) = cctx.conns

\* C19: for every primary URL the candidate list has the primary URL first,
\* contains each of the three fixed fallbacks, and has no URL twice.
C19_CandidateList ==
  /\ fallback_urls[1] = url
  /\ Range(FixedFallbacks) \subseteq Range(fallback_urls)
  /\ Cardinality(Range(fallback_urls)) = Len(fallback_urls)

\* the primary URL is the second of the fixed fallbacks, and connect has gone
\* through the whole list
C19_Witness ==
  /\ url = FixedFallbacks[2]
  /\ fallback_urls = <<FixedFallbacks[2], FixedFallbacks[1], FixedFallbacks[3]>>
  /\ tried = fallback_urls

\* C20: a publish called after the connection was closed or lost invokes
\* connect before it sends.
C20_PublishReconnectsFirst ==
  (ppc[1] \in {"sending", "returned", "raised"} /\ pctx[1].stale) => pctx[1].connected

\* C21: for any interleaving of publish calls issued while the client is
\* disconnected, at most one of the calls establishes a broker connection, so
\* that no connection is opened and then orphaned.
C21_ConcurrentPublishOneConnection ==
  Cardinality({p \in Publishers : ppc[p] # "idle" /\ pctx[p].disconnected
                                   /\ pctx[p].connected}) <= 1

(***************************************************************************)
(* Router.start: one subscribe() call per registered handler               *)
(***************************************************************************)
subscribe_max_retries == 5

\* self.handlers.items(): the registered subjects in registration order
HandlerOrders == {<<"tasks.rank", "tasks.summarize">>, <<"tasks.summarize", "tasks.rank">>}

\* nc.subscribe on the connection the client holds: it goes through when the
\* server of that connection answers
CoreSubscribeOk == nc # NoConn /\ connUrl[nc] \in reachable

\* start() is entered with the handlers registered
StartCall ==
  /\ stpc = "idle"
  /\ \E order \in HandlerOrders : sremaining' = order
  /\ stpc' = IF nc = NoConn THEN "connect" ELSE "loop"
  /\ UNCHANGED <<clientVars, envVars, brokerVars, routerVars, sattempt, sfailed, sattempted>>
  /\ UNCHANGED nonStart

\* the initial connect of start(): a failure is logged and swallowed
StartConnect ==
  /\ stpc = "connect"
  /\ IF ConnectSucceeds THEN ConnectEffect ELSE UNCHANGED <<clientVars, faults, brokerVars>>
  /\ stpc' = "loop"
  /\ UNCHANGED <<reachable, netChanges, routerVars, sremaining, sattempt, sfailed, sattempted>>
  /\ UNCHANGED nonStart

\* the for loop of start() takes the next handler and calls subscribe()
StartNext ==
  /\ stpc = "loop"
  /\ sremaining # <<>>
  /\ stpc' = "attempt"
  /\ sattempt' = 1
  /\ sattempted' = sattempted \cup {Head(sremaining)}
  /\ UNCHANGED <<clientVars, envVars, brokerVars, routerVars, sremaining, sfailed>>
  /\ UNCHANGED nonStart

\* subscribe() raised into start(): logged, continue with the next handler
AfterSubscribeRaised_Propagates == "raise"
AfterSubscribeRaised == "continue"

SubscribeRaises ==
  /\ sfailed' = sfailed \cup {Head(sremaining)}
  /\ IF AfterSubscribeRaised = "continue"
     THEN stpc' = "loop" /\ sremaining' = Tail(sremaining)
     ELSE stpc' = "raised" /\ sremaining' = sremaining
  /\ UNCHANGED sattempt

\* one iteration of subscribe() with self.nc unset: the last attempt raises
\* RuntimeError, an earlier one connects and, when that fails, sleeps and
\* goes to the next attempt
SubscribeNotConnected ==
  /\ stpc = "attempt"
  /\ nc = NoConn
  /\ IF sattempt = subscribe_max_retries
     THEN /\ SubscribeRaises
          /\ UNCHANGED <<clientVars, faults, brokerVars>>
     ELSE IF ConnectSucceeds
          THEN /\ ConnectEffect
               /\ stpc' = "subscribe"
               /\ UNCHANGED <<sremaining, sattempt, sfailed>>
          ELSE /\ sattempt' = sattempt + 1
               /\ UNCHANGED <<clientVars, faults, brokerVars, stpc, sremaining, sfailed>>
  /\ UNCHANGED <<reachable, netChanges, routerVars, sattempted>>
  /\ UNCHANGED nonStart

\* one iteration of subscribe() with self.nc set goes straight to nc.subscribe
SubscribeConnected ==
  /\ stpc = "attempt"
  /\ nc # NoConn
  /\ stpc' = "subscribe"
  /\ UNCHANGED <<clientVars, envVars, brokerVars, routerVars, sremaining, sattempt, sfailed, sattempted>>
  /\ UNCHANGED nonStart

\* nc.subscribe returned: the subscription is recorded and subscribe() returns
SubscribeOk ==
  /\ stpc = "subscribe"
  /\ CoreSubscribeOk
  /\ subscriptions' = subscriptions \cup {Head(sremaining)}
  /\ stpc' = "loop"
  /\ sremaining' = Tail(sremaining)
  /\ UNCHANGED <<clientVars, envVars, brokerVars, rpc, rsubject, stubAcks, brokerAcks, handlerRaised>>
  /\ UNCHANGED <<sattempt, sfailed, sattempted>>
  /\ UNCHANGED nonStart

\* nc.subscribe raised: the last attempt re-raises, an earlier one sleeps and
\* goes to the next attempt
SubscribeFail ==
  /\ stpc = "subscribe"
  /\ ~CoreSubscribeOk
  /\ IF sattempt = subscribe_max_retries
     THEN SubscribeRaises
     ELSE /\ sattempt' = sattempt + 1
          /\ stpc' = "attempt"
          /\ UNCHANGED <<sremaining, sfailed>>
  /\ UNCHANGED <<clientVars, envVars, brokerVars, routerVars, sattempted>>
  /\ UNCHANGED nonStart

\* the for loop is exhausted: start() returns
StartReturn ==
  /\ stpc = "loop"
  /\ sremaining = <<>>
  /\ stpc' = "done"
  /\ UNCHANGED <<clientVars, envVars, brokerVars, routerVars, sremaining, sattempt, sfailed, sattempted>>
  /\ UNCHANGED nonStart

InitStart ==
  /\ url \in PrimaryUrls
  /\ nc = NoConn
  /\ js = NoConn
  /\ connUrl = <<>>
  /\ reachable \in ReachSets(FallbackUrls(url))
  /\ netChanges = 0
  /\ faults = 0
  /\ streams = [n \in StreamNames |-> NoStream]
  /\ msgs = [n \in StreamNames |-> <<>>]
  /\ PubIdle
  /\ RouterIdle
  /\ FetchIdle
  /\ SecretIdle
  /\ ArticleIdle
  /\ StoreIdle
  /\ ConnIdle
  /\ StartIdle
  /\ LifeIdle
  /\ ChainIdle
  /\ SumIdle
  /\ RankIdle
  /\ SubsIdle
  /\ SchedIdle

NextStart ==
  \/ NetChange
  \/ ClientConnect
  \/ StartCall
  \/ StartConnect
  \/ StartNext
  \/ SubscribeNotConnected
  \/ SubscribeConnected
  \/ SubscribeOk
  \/ SubscribeFail
  \/ StartReturn

SpecStart == InitStart /\ [][NextStart]_vars

\* C22: start() calls subscribe() for every registered subject and returns
\* without raising; a subject whose subscribe() failed after its attempts does
\* not stop the later ones, and every subject ends either subscribed or failed.
C22_StartSubscribesEveryHandler ==
  /\ stpc # "raised"
  /\ stpc = "done" =>
       /\ sattempted = RouterSubjects
       /\ subscriptions \cup sfailed = RouterSubjects
       /\ subscriptions \cap sfailed = {}

\* the first handler failed after its attempts, the second one is subscribed
C22_Witness ==
  /\ stpc = "done"
  /\ Cardinality(sfailed) = 1
  /\ Cardinality(subscriptions) = 1

(***************************************************************************)
(* BaseAgent.run, setup and teardown, and the overrides of the subclasses  *)
(***************************************************************************)
setup_max_retries == 5

AgentKinds == {"base", "fetcher", "ranker", "summariser", "sharer"}

\* the steps, in their order, of the teardown() that self.teardown resolves
\* to: BaseAgent.teardown (inherited by the sharer) closes the bus, closes the
\* store and stops the health server, the fetcher's override closes the HTTP
\* and S3 clients only, the ranker's and the summariser's overrides close the
\* pool only
TeardownOrder(k) ==
  IF k \in {"base", "sharer"} THEN <<"bus", "db", "health">>
  ELSE IF k \in {"ranker", "summariser"} THEN <<"db">>
  ELSE <<>>

\* the steps a teardown() gets to when the steps in failing raise: each step
\* of BaseAgent.teardown is in a try/except of its own
StepsCalled_StopAtFailure(order, failing) ==
  {order[i] : i \in {j \in 1..Len(order) : \A h \in 1..(j - 1) : order[h] \notin failing}}
StepsCalled(order, failing) == Range(order)

\* whether the run() of the class reaches teardown(): BaseAgent.run and
\* FetcherAgent.run have a finally clause, the other three overrides have none
RunsTeardown(k) == k \in {"base", "fetcher"}

\* what run() does with an Exception out of setup(): BaseAgent.run (also
\* entered through the fetcher's super().run()) counts it and goes to
\* teardown, the ranker and the summariser sleep and start over, the sharer
\* logs and returns
OnSetupError(k) ==
  IF k \in {"base", "fetcher"} THEN "count"
  ELSE IF k \in {"ranker", "summariser"} THEN "restart"
  ELSE "return"

\* the increment of metrics["errors"] when connect attempt number a failed
ErrorsOnFailedAttempt_Every(a) == 1
ErrorsOnFailedAttempt(a) == IF a = setup_max_retries THEN 1 ELSE 0

RunCall ==
  /\ lpc = "idle"
  /\ lpc' = IF akind = "base" THEN "health" ELSE "setup"
  /\ UNCHANGED <<clientVars, envVars, brokerVars, akind, battempt, herrors, is_ready, closeCalls, endedBy>>
  /\ UNCHANGED nonLife

\* BaseAgent.setup: health.start(), a failure is logged and setup goes on
HealthStart ==
  /\ lpc = "health"
  /\ lpc' = "connect"
  /\ battempt' = 1
  /\ UNCHANGED <<clientVars, envVars, brokerVars, akind, herrors, is_ready, closeCalls, endedBy>>
  /\ UNCHANGED nonLife

\* BaseAgent.setup: bus.connect() of the current attempt returned
BusConnectOk ==
  /\ lpc = "connect"
  /\ ConnectEffect
  /\ lpc' = "dbconnect"
  /\ UNCHANGED <<reachable, netChanges, akind, battempt, herrors, is_ready, closeCalls, endedBy>>
  /\ UNCHANGED nonLife

\* BaseAgent.setup: bus.connect() of the current attempt raised
BusConnectFail ==
  /\ lpc = "connect"
  /\ ~ConnectSucceeds
  /\ herrors' = herrors + ErrorsOnFailedAttempt(battempt)
  /\ IF battempt = setup_max_retries
     THEN lpc' = "raised" /\ endedBy' = "bus_error" /\ UNCHANGED battempt
     ELSE battempt' = battempt + 1 /\ UNCHANGED <<lpc, endedBy>>
  /\ UNCHANGED <<clientVars, envVars, brokerVars, akind, is_ready, closeCalls>>
  /\ UNCHANGED nonLife

\* the attributes PostgresClient.__init__ sets
PostgresClientFields == {"connection_string", "logger", "pool", "min_size", "max_size"}

\* the log line ahead of db.connect() reads self.db.url inside the try block
DbLogLineOk == "url" \in PostgresClientFields

\* BaseAgent.setup: the log line, db.connect(), then is_ready is set; the
\* AttributeError of the log line and an error of db.connect() both go to the
\* except clause, which counts an error and re-raises
DbConnect ==
  /\ lpc = "dbconnect"
  /\ \E ok \in BOOLEAN :
       IF DbLogLineOk /\ ok
       THEN lpc' = "running" /\ is_ready' = TRUE /\ UNCHANGED <<herrors, endedBy>>
       ELSE lpc' = "raised" /\ herrors' = herrors + 1
            /\ endedBy' = (IF DbLogLineOk THEN "db_error" ELSE "attribute_error")
            /\ UNCHANGED is_ready
  /\ UNCHANGED <<clientVars, envVars, brokerVars, akind, battempt, closeCalls>>
  /\ UNCHANGED nonLife

\* the setup() of a subclass, none of which calls BaseAgent.setup; the fetcher
\* runs its setup in its own run() and again inside super().run()
SetupOverride ==
  /\ lpc \in {"setup", "inner_setup"}
  /\ \E ok \in BOOLEAN :
       IF ok
       THEN /\ lpc' = IF akind = "fetcher" /\ lpc = "setup" THEN "inner_setup" ELSE "running"
            /\ UNCHANGED endedBy
       ELSE IF akind = "fetcher" /\ lpc = "setup"
            THEN lpc' = "teardown" /\ endedBy' = "setup_error"
            ELSE lpc' = "raised" /\ endedBy' = "setup_error"
  /\ UNCHANGED <<clientVars, envVars, brokerVars, akind, battempt, herrors, is_ready, closeCalls>>
  /\ UNCHANGED nonLife

\* the except Exception clause of run()
RunCatch ==
  /\ lpc = "raised"
  /\ IF OnSetupError(akind) = "count"
     THEN lpc' = "teardown" /\ herrors' = herrors + 1 /\ UNCHANGED endedBy
     ELSE IF OnSetupError(akind) = "restart"
     THEN lpc' = "setup" /\ endedBy' = "none" /\ UNCHANGED herrors
     ELSE lpc' = "ended" /\ UNCHANGED <<herrors, endedBy>>
  /\ UNCHANGED <<clientVars, envVars, brokerVars, akind, battempt, is_ready, closeCalls>>
  /\ UNCHANGED nonLife

\* the task is cancelled at one of the awaits of run(): CancelledError is not
\* an Exception, so only BaseAgent.run catches it
RunCancel ==
  /\ lpc \in {"connect", "dbconnect", "setup", "inner_setup", "running"}
  /\ endedBy' = "cancel"
  /\ lpc' = IF RunsTeardown(akind) THEN "teardown" ELSE "ended"
  /\ UNCHANGED <<clientVars, envVars, brokerVars, akind, battempt, herrors, is_ready, closeCalls>>
  /\ UNCHANGED nonLife

\* the finally clause: self.teardown(); the fetcher's second call from its own
\* finally repeats the same override
Teardown ==
  /\ lpc = "teardown"
  /\ \E failing \in SUBSET Range(TeardownOrder(akind)) :
       closeCalls' = closeCalls \cup
         {[step |-> st, ok |-> st \notin failing] :
            st \in StepsCalled(TeardownOrder(akind), failing)}
  /\ is_ready' = IF akind = "base" THEN FALSE ELSE is_ready
  /\ lpc' = "ended"
  /\ UNCHANGED <<clientVars, envVars, brokerVars, akind, battempt, herrors, endedBy>>
  /\ UNCHANGED nonLife

InitLife ==
  /\ url \in PrimaryUrls
  /\ nc = NoConn
  /\ js = NoConn
  /\ connUrl = <<>>
  /\ reachable \in ReachSets(FallbackUrls(url))
  /\ netChanges = 0
  /\ faults = 0
  /\ streams = [n \in StreamNames |-> NoStream]
  /\ msgs = [n \in StreamNames |-> <<>>]
  /\ PubIdle
  /\ RouterIdle
  /\ FetchIdle
  /\ SecretIdle
  /\ ArticleIdle
  /\ StoreIdle
  /\ ConnIdle
  /\ StartIdle
  /\ akind \in AgentKinds
  /\ lpc = "idle"
  /\ battempt = 0
  /\ herrors = 0
  /\ is_ready = FALSE
  /\ closeCalls = {}
  /\ endedBy = "none"
  /\ ChainIdle
  /\ SumIdle
  /\ RankIdle
  /\ SubsIdle
  /\ SchedIdle

NextLife ==
  \/ NetChange
  \/ RunCall
  \/ HealthStart
  \/ BusConnectOk
  \/ BusConnectFail
  \/ DbConnect
  \/ SetupOverride
  \/ RunCatch
  \/ RunCancel
  \/ Teardown

SpecLife == InitLife /\ [][NextLife]_vars

\* C23: for every agent class, when run() has ended after a cancellation or an
\* error, bus.close and db.close have both been called.
C23_RunEndClosesBusAndStore ==
  (lpc = "ended" /\ endedBy # "none") =>
    {"bus", "db"} \subseteq {c.step : c \in closeCalls}

\* C24: in BaseAgent.setup the broker connect loop makes at most 5 attempts,
\* the error counter stays at 0 while attempts are retried, it is 1 when the
\* fifth attempt has failed and setup raises, and the agent is not marked ready
\* on that path.
C24_SetupCountsOnlyFinalFailure ==
  akind = "base" =>
    /\ battempt <= setup_max_retries
    /\ lpc = "connect" => herrors = 0
    /\ (lpc = "raised" /\ endedBy = "bus_error") =>
         (herrors = 1 /\ battempt = setup_max_retries)
    /\ endedBy = "bus_error" => ~is_ready

C24_Witness ==
  /\ akind = "base"
  /\ lpc = "raised"
  /\ endedBy = "bus_error"
  /\ battempt = setup_max_retries
  /\ herrors = 1

(***************************************************************************)
(* Claims about the consumers at the end of FetcherAgent.setup             *)
(***************************************************************************)
\* the broker answered every call of the setup so far: reachable from the
\* start, no API error
BrokerAnsweredAll == faults = MaxFaults /\ netChanges = 0 /\ reachable # {}

\* the durable consumer d of the configured stream was created by this
\* connection and a subscription of this connection is bound to it
CreatedAndBound(d) ==
  /\ ConsumerOf(streamName, d) = {[stream |-> streamName, durable |-> d, deliver |-> <<js, d>>]}
  /\ [conn |-> js, durable |-> d, inbox |-> <<js, d>>] \in subs

\* C25: with the broker answering and the reconciliation done, the first
\* setup() does not abort at the consumers, and it ends with each durable
\* consumer deleted if it existed, created anew, and bound to a subscription.
C25_SetupRecreatesBothConsumers ==
  (BrokerAnsweredAll /\ setupRun = 1) =>
    /\ fpc = "ready" => \A d \in Durables : CreatedAndBound(d)
    /\ fpc = "aborted" => "delete_consumer" \notin Range(jsCalls)

\* C40: whenever setup() has issued the delete_consumer of a durable name and
\* is about to create the consumer through js.subscribe, the stream the delete
\* named is the stream the subscribe names, whatever NATS_STREAM_NAME is.
C40_DeleteAndCreateOnSameStream ==
  fpc \in {"sub_rss", "sub_article"} => DeleteConsumerStream = streamName

(***************************************************************************)
(* The subjects of the pipeline: what each stage publishes to and what the *)
(* next stage subscribes to                                                *)
(***************************************************************************)
\* A subject is the sequence of its tokens between dots.
Stages == {"fetcher", "summariser", "ranker", "sharer"}

NextStage(st) ==
  IF st = "fetcher" THEN "summariser"
  ELSE IF st = "summariser" THEN "ranker"
  ELSE IF st = "ranker" THEN "sharer"
  ELSE "none"

\* the subject a stage publishes its follow-up task to: the fetcher and the
\* ranker build it from NATS_SUBJECT_PREFIX, the summariser uses a literal
PublishSubject(st, prefix) ==
  IF st = "fetcher" THEN <<prefix, "tasks", "summarize">>
  ELSE IF st = "summariser" THEN <<"ai-radar", "tasks", "rank">>
  ELSE <<prefix, "tasks", "share">>

\* the bare subject a stage registers with router.on
RegisteredSubject(st) ==
  IF st = "summariser" THEN <<"tasks", "summarize">>
  ELSE IF st = "ranker" THEN <<"tasks", "rank">>
  ELSE <<"tasks", "share">>

\* Router.start subscribes f"ai-radar.{subject}"
RouterPrefix(prefix) == "ai-radar"

SubscribeSubject(st, prefix) == <<RouterPrefix(prefix)>> \o RegisteredSubject(st)

\* Router.start of a stage has subscribed its handler
ChainSubscribe(st) ==
  /\ st \in Stages \ {"fetcher"}
  /\ st \notin csubscribed
  /\ csubscribed' = csubscribed \cup {st}
  /\ UNCHANGED <<cprefix, task>>
  /\ UNCHANGED nonChain

\* the fetcher takes up an article
ChainFetch(t) ==
  /\ task[t] = NoTask
  /\ task' = [task EXCEPT ![t] = [holder |-> "fetcher", subject |-> <<>>, from |-> "none"]]
  /\ UNCHANGED <<cprefix, csubscribed>>
  /\ UNCHANGED nonChain

\* the stage holding the task publishes the follow-up task
ChainPublish(t) ==
  /\ task[t].holder \in Stages \ {"sharer"}
  /\ task' = [task EXCEPT ![t] = [holder |-> "none",
                                  subject |-> PublishSubject(task[t].holder, cprefix),
                                  from |-> task[t].holder]]
  /\ UNCHANGED <<cprefix, csubscribed>>
  /\ UNCHANGED nonChain

\* the broker hands the message to a subscription on its subject
ChainDeliver(t, st) ==
  /\ task[t].subject # <<>>
  /\ st \in csubscribed
  /\ SubscribeSubject(st, cprefix) = task[t].subject
  /\ task' = [task EXCEPT ![t] = [holder |-> st, subject |-> <<>>, from |-> task[t].from]]
  /\ UNCHANGED <<cprefix, csubscribed>>
  /\ UNCHANGED nonChain

InitChain ==
  /\ url = "nats://nats:4222"
  /\ nc = NoConn
  /\ js = NoConn
  /\ connUrl = <<>>
  /\ reachable = {}
  /\ netChanges = 0
  /\ faults = 0
  /\ streams = [n \in StreamNames |-> NoStream]
  /\ msgs = [n \in StreamNames |-> <<>>]
  /\ PubIdle
  /\ RouterIdle
  /\ FetchIdle
  /\ SecretIdle
  /\ ArticleIdle
  /\ StoreIdle
  /\ ConnIdle
  /\ StartIdle
  /\ LifeIdle
  /\ cprefix \in Prefixes
  /\ csubscribed = {}
  /\ task = [t \in 1..NumTasks |-> NoTask]
  /\ SumIdle
  /\ RankIdle
  /\ SubsIdle
  /\ SchedIdle

NextChain ==
  \/ \E st \in Stages : ChainSubscribe(st)
  \/ \E t \in 1..NumTasks :
       \/ ChainFetch(t)
       \/ ChainPublish(t)
       \/ \E st \in Stages : ChainDeliver(t, st)

SpecChain == InitChain /\ [][NextChain]_vars

\* C26: for every subject prefix, a follow-up task in flight is on exactly the
\* subject the next stage of its publisher subscribes to.
C26_ChainConnected ==
  \A t \in 1..NumTasks :
    task[t].subject # <<>> =>
      task[t].subject = SubscribeSubject(NextStage(task[t].from), cprefix)

(***************************************************************************)
(* SummariserAgent.process_summarize: exists-check, insert, rank task      *)
(***************************************************************************)
\* the articles table declares url UNIQUE: an insert of a url that has a row
\* is refused with a unique violation
UniqueViolation_Never(rows, u) == FALSE
UniqueViolation(rows, u) == rows[u] > 0

SumSet(d, pc) == sdel' = [sdel EXCEPT ![d].pc = pc]

\* a summarize task is delivered; the handler parses it
SumDeliver(d, u) ==
  /\ sdel[d].pc = "none"
  /\ sdel' = [sdel EXCEPT ![d] = [pc |-> "check", url |-> u, retries |-> 0, passed |-> "no"]]
  /\ UNCHANGED <<srows, srank>>
  /\ UNCHANGED nonSum

\* SELECT id FROM articles WHERE url = $1 through retry_db_operation: a row
\* ends the handler, so does a store failure that outlasts the retries
SumExistsCheck(d) ==
  /\ sdel[d].pc = "check"
  /\ \E failed \in BOOLEAN :
       IF failed \/ srows[sdel[d].url] > 0
       THEN SumSet(d, "done")
       ELSE sdel' = [sdel EXCEPT ![d].pc = "work", ![d].passed = "yes"]
  /\ UNCHANGED <<srows, srank>>
  /\ UNCHANGED nonSum

\* source lookup, content from S3, summary, embedding: an exception goes to
\* the outer except clause, which acknowledges
SumWork(d) ==
  /\ sdel[d].pc = "work"
  /\ \E ok \in BOOLEAN : SumSet(d, IF ok THEN "insert" ELSE "done")
  /\ UNCHANGED <<srows, srank>>
  /\ UNCHANGED nonSum

\* one invocation of the INSERT by retry_db_operation: a refused or failed
\* insert counts one retry and is invoked again until the budget is used up,
\* then the handler acknowledges and returns; an insert whose reply is lost
\* has its row and counts as failed
SumInsert(d) ==
  /\ sdel[d].pc = "insert"
  /\ LET u == sdel[d].url
         failedAgain == sdel' = [sdel EXCEPT
                           ![d].retries = @ + 1,
                           ![d].pc = IF sdel[d].retries + 1 = db_max_retries
                                     THEN "done" ELSE "insert"]
     IN  IF UniqueViolation(srows, u)
         THEN failedAgain /\ UNCHANGED srows
         ELSE \E outcome \in {"stored", "lost_reply", "error"} :
                /\ srows' = IF outcome = "error" THEN srows
                            ELSE [srows EXCEPT ![u] = @ + 1]
                /\ IF outcome = "stored" THEN SumSet(d, "publish") ELSE failedAgain
  /\ UNCHANGED srank
  /\ UNCHANGED nonSum

\* js.publish("ai-radar.tasks.rank", ...), then the acknowledgment; a failed
\* publish goes to the outer except clause
SumPublish(d) ==
  /\ sdel[d].pc = "publish"
  /\ \E ok \in BOOLEAN :
       srank' = IF ok THEN [srank EXCEPT ![sdel[d].url] = @ + 1] ELSE srank
  /\ SumSet(d, "done")
  /\ UNCHANGED srows
  /\ UNCHANGED nonSum

InitSummarise ==
  /\ url = "nats://nats:4222"
  /\ nc = NoConn
  /\ js = NoConn
  /\ connUrl = <<>>
  /\ reachable = {}
  /\ netChanges = 0
  /\ faults = 0
  /\ streams = [n \in StreamNames |-> NoStream]
  /\ msgs = [n \in StreamNames |-> <<>>]
  /\ PubIdle
  /\ RouterIdle
  /\ FetchIdle
  /\ SecretIdle
  /\ ArticleIdle
  /\ StoreIdle
  /\ ConnIdle
  /\ StartIdle
  /\ LifeIdle
  /\ ChainIdle
  /\ srows \in [ArticleUrls -> {0, 1}]
  /\ srank = [u \in ArticleUrls |-> 0]
  /\ sdel = [d \in Deliveries |-> NoSummarize]
  /\ RankIdle
  /\ SubsIdle
  /\ SchedIdle

NextSummarise ==
  \E d \in Deliveries :
    \/ \E u \in ArticleUrls : SumDeliver(d, u)
    \/ SumExistsCheck(d)
    \/ SumWork(d)
    \/ SumInsert(d)
    \/ SumPublish(d)

SpecSummarise == InitSummarise /\ [][NextSummarise]_vars

\* C27: however the deliveries of summarize tasks with the same url
\* interleave, the store never holds more than one article row for the url
\* and at most one rank task is published for it.
C27_OneRowOneRankTask ==
  \A u \in ArticleUrls : srows[u] <= 1 /\ srank[u] <= 1

\* two deliveries of one url both passed the exists-check and both are done
C27_Witness ==
  \E d1, d2 \in Deliveries :
    /\ d1 # d2
    /\ sdel[d1].url = sdel[d2].url
    /\ sdel[d1].passed = "yes" /\ sdel[d2].passed = "yes"
    /\ sdel[d1].pc = "done" /\ sdel[d2].pc = "done"
    /\ sdel[d1].retries = 0 /\ sdel[d2].retries = db_max_retries
    /\ srank[sdel[d1].url] = 1

(***************************************************************************)
(* Claims about concurrent deliveries to handle_article_fetch              *)
(***************************************************************************)
PassedGuard(u) == {d \in Articles : art[d].url = u /\ art[d].seen = "unseen"}

\* C28: among deliveries with the same URL, in flight at the same time or
\* not, at most one passes the dedup guard; every other one is acknowledged
\* and is done without a fetch, a stored object or a published task.
C28_OnePassesGuard ==
  \A u \in ArticleUrls :
    /\ Cardinality(PassedGuard(u)) <= 1
    /\ \A d \in Articles :
         (art[d].url = u /\ d \notin PassedGuard(u)) =>
           (art[d].pc = "done" /\ art[d].acks = 1 /\ art[d].gets = 0 /\ ~art[d].stored)

\* a second delivery of the URL is turned away while the first one is still
\* between its fetch and its store
C28_Witness ==
  \E d1, d2 \in Articles :
    /\ d1 # d2
    /\ art[d1].url = art[d2].url
    /\ art[d1].seen = "unseen" /\ art[d1].pc \in {"fetch", "store"}
    /\ art[d2].seen = "seen" /\ art[d2].pc = "done"

(***************************************************************************)
(* Claims about the retry budget of retry_db_operation                     *)
(***************************************************************************)
\* C29: retry_db_operation invokes the operation at most 5 times; while the
\* loop runs every invocation so far has failed and has used one unit of the
\* budget, a reconnect that succeeded included; the call is over once the
\* budget is used up.
C29_EveryFailureUsesBudget ==
  /\ sinv <= db_max_retries
  /\ retries <= sinv
  /\ spc = "loop" => retries = sinv
  /\ spc = "done" => retries >= sinv - 1

\* five invocations failed with a connection error, each reconnect succeeded
\* without a sleep, and the call ended
C29_Witness ==
  /\ spc = "done"
  /\ sinv = db_max_retries
  /\ retries = db_max_retries
  /\ onlyTransient
  /\ sleepsTotal = 0
  /\ pool = "open"

(***************************************************************************)
(* Claims about the acknowledgments of handle_article_fetch                *)
(***************************************************************************)
Ended(d) == art[d].pc \in {"done", "raised"}

\* C30: a delivery to handle_article_fetch is never acknowledged twice, and
\* when the handler has returned or raised, on the duplicate path as on the
\* paths through the except clause, it has been acknowledged exactly once.
C30_AckedExactlyOnce ==
  \A d \in Articles :
    /\ art[d].acks <= 1
    /\ Ended(d) => art[d].acks = 1

\* one delivery ended on the duplicate path, one through the except clause
\* after its object was stored, one through the except clause on a payload
\* without a URL
C30_Witness ==
  \E d1, d2, d3 \in Articles :
    /\ Ended(d1) /\ art[d1].seen = "seen"
    /\ Ended(d2) /\ art[d2].stored /\ art[d2].errors = 1
    /\ Ended(d3) /\ art[d3].url = None /\ art[d3].errors = 1

(***************************************************************************)
(* Claims about what handle_article_fetch leaves behind                    *)
(***************************************************************************)
\* C31: a delivery of a new URL whose page was downloaded and stored is not
\* acknowledged before its summarize task has been published.
C31_StoredThenPublishedBeforeAck ==
  \A d \in Articles :
    (art[d].seen = "unseen" /\ art[d].stored /\ art[d].acks >= 1) => art[d].published

\* the processing of the delivery ended in the except clause
FailedProcessing(d) == art[d].seen = "unseen" /\ art[d].errors >= 1

\* C32: a URL whose processing failed stays in processed_urls, and every
\* delivery of that URL that arrives after the one that failed is acknowledged
\* once and skipped: no download, nothing stored.
C32_FailedUrlStaysMarked ==
  /\ \A d \in Articles : FailedProcessing(d) => art[d].url \in processed_urls
  /\ \A i, j \in 1..Len(arrivals) :
       (i < j /\ FailedProcessing(arrivals[i])
          /\ art[arrivals[j]].url = art[arrivals[i]].url) =>
         /\ art[arrivals[j]].seen = "seen"
         /\ art[arrivals[j]].acks = 1
         /\ art[arrivals[j]].gets = 0
         /\ ~art[arrivals[j]].stored

\* the download of a URL failed, and a delivery of the same URL that arrived
\* after the failure was skipped
C32_Witness ==
  \E i, j \in 1..Len(arrivals) :
    /\ i < j
    /\ FailedProcessing(arrivals[i])
    /\ art[arrivals[i]].gets = 1 /\ ~art[arrivals[i]].stored
    /\ art[arrivals[j]].url = art[arrivals[i]].url
    /\ art[arrivals[j]].pc = "done"

(***************************************************************************)
(* A fetcher startup against a broker that holds no stream and that no     *)
(* other agent has connected to                                            *)
(***************************************************************************)
InitStartup ==
  /\ InitFetcher
  /\ streams = [n \in StreamNames |-> NoStream]

NextStartup ==
  \/ NetChange
  \/ FSetupStart
  \/ FSetupAgain
  \/ FRunning
  \/ FConnectOk
  \/ FConnectFail
  \/ FStreamInfo
  \/ FDeleteStream
  \/ FAddStream
  \/ FUpdateStream
  \/ FDeleteConsumer
  \/ FSubscribe

SpecStartup == InitStartup /\ [][NextStartup]_vars

\* C33: the first setup() of a fetcher started against a broker without any
\* stream issues no delete_stream.
C33_FreshStartupDeletesNothing ==
  setupRun = 1 => "delete_stream" \notin Range(jsCalls)

(***************************************************************************)
(* RankerAgent.process_rank, the share task and the sharer's handler       *)
(***************************************************************************)
MaxShareMsgs == 2

\* what process_rank hands to bus.publish as payload: the bytes of
\* json.dumps(share_payload).encode()
SharePayloadType == "bytes"

\* NatsClient.publish runs json.dumps(payload) on what it is given: a dict
\* serialises, bytes raise TypeError
JsonDumpsOk(type) == type = "dict"

\* the keys of the share payload the ranker builds
RankerShareKeys == {"article_title", "article_url"}

\* handle_share_request reads payload.get('title') and payload.get('url') and
\* shares when both are there
SharerAccepts(keys) == {"title", "url"} \subseteq keys

RankSet(t, r) == rk' = [rk EXCEPT ![t] = r]

\* a rank task is delivered; the score lookup finds a custom score or fails
\* (acknowledge, return) or lets the handler go on to score the article
RankDeliver(t) ==
  /\ rk[t].pc = "none"
  /\ \E goesOn \in BOOLEAN :
       RankSet(t, IF goesOn THEN [rk[t] EXCEPT !.pc = "score"]
                  ELSE [rk[t] EXCEPT !.pc = "done", !.acks = @ + 1])
  /\ UNCHANGED <<shareMsgs, shared>>
  /\ UNCHANGED nonRank

\* final_score is computed and written to the store; a failed update is
\* acknowledged and ends the handler
RankScore(t) ==
  /\ rk[t].pc = "score"
  /\ \E high \in BOOLEAN, updateOk \in BOOLEAN :
       RankSet(t, IF ~updateOk THEN [rk[t] EXCEPT !.pc = "done", !.high = high, !.acks = @ + 1]
                  ELSE IF high
                  THEN [rk[t] EXCEPT !.pc = "share", !.high = TRUE, !.updated = TRUE,
                                     !.attempt = 1]
                  ELSE [rk[t] EXCEPT !.pc = "done", !.updated = TRUE, !.acks = @ + 1])
  /\ UNCHANGED <<shareMsgs, shared>>
  /\ UNCHANGED nonRank

\* one iteration of NatsClient.publish for the share task, the client being
\* connected: json.dumps, then js.publish; an exception of the last attempt is
\* re-raised into the except clause of process_rank, which acknowledges
RankShareAttempt(t) ==
  /\ rk[t].pc = "share"
  /\ IF JsonDumpsOk(SharePayloadType)
     THEN /\ Len(shareMsgs) < MaxShareMsgs
          /\ shareMsgs' = Append(shareMsgs, [by |-> t, keys |-> RankerShareKeys])
          /\ RankSet(t, [rk[t] EXCEPT !.pc = "done", !.acks = @ + 1])
     ELSE /\ shareMsgs' = shareMsgs
          /\ RankSet(t, IF rk[t].attempt = max_retries
                        THEN [rk[t] EXCEPT !.pc = "done", !.acks = @ + 1]
                        ELSE [rk[t] EXCEPT !.attempt = @ + 1])
  /\ UNCHANGED shared
  /\ UNCHANGED nonRank

\* a share request published by something other than the ranker
ShareRequestFromOutside(keys) ==
  /\ Len(shareMsgs) < MaxShareMsgs
  /\ shareMsgs' = Append(shareMsgs, [by |-> 0, keys |-> keys])
  /\ UNCHANGED <<rk, shared>>
  /\ UNCHANGED nonRank

\* handle_share_request gets message i
ShareHandle(i) ==
  /\ i \in 1..Len(shareMsgs)
  /\ i \notin shared
  /\ SharerAccepts(shareMsgs[i].keys)
  /\ shared' = shared \cup {i}
  /\ UNCHANGED <<rk, shareMsgs>>
  /\ UNCHANGED nonRank

InitRank ==
  /\ url = "nats://nats:4222"
  /\ nc = NoConn
  /\ js = NoConn
  /\ connUrl = <<>>
  /\ reachable = {}
  /\ netChanges = 0
  /\ faults = 0
  /\ streams = [n \in StreamNames |-> NoStream]
  /\ msgs = [n \in StreamNames |-> <<>>]
  /\ PubIdle
  /\ RouterIdle
  /\ FetchIdle
  /\ SecretIdle
  /\ ArticleIdle
  /\ StoreIdle
  /\ ConnIdle
  /\ StartIdle
  /\ LifeIdle
  /\ ChainIdle
  /\ SumIdle
  /\ RankIdle
  /\ SubsIdle
  /\ SchedIdle

NextRank ==
  \/ \E t \in 1..NumTasks :
       \/ RankDeliver(t)
       \/ RankScore(t)
       \/ RankShareAttempt(t)
  \/ \E keys \in {RankerShareKeys, {"title", "url"}} : ShareRequestFromOutside(keys)
  \/ \E i \in 1..MaxShareMsgs : ShareHandle(i)

SpecRank == InitRank /\ [][NextRank]_vars

\* C34: a rank delivery that ended with a final score at or above the sharing
\* threshold, its score written to the store, has published exactly one share
\* task.
C34_HighScorePublishesShareTask ==
  \A t \in 1..NumTasks :
    (rk[t].pc = "done" /\ rk[t].high /\ rk[t].updated) =>
      Cardinality({i \in 1..Len(shareMsgs) : shareMsgs[i].by = t}) = 1

(***************************************************************************)
(* Claims about readiness at the end of BaseAgent.setup                    *)
(***************************************************************************)
\* C35: BaseAgent.setup raises only when the broker connection or the store
\* connection could not be established; with both reachable it runs to its
\* end and the agent is marked ready.
C35_SetupFailsOnlyOnConnectionFailure ==
  (akind = "base" /\ lpc = "raised") => endedBy \in {"bus_error", "db_error"}

(***************************************************************************)
(* Claims about BaseAgent.run and BaseAgent.teardown                       *)
(***************************************************************************)
\* C37: when the run() of a plain BaseAgent has ended, after a failed setup
\* or a cancellation, teardown has run: the agent is not ready, and closing
\* the bus, closing the store and stopping the health server have all been
\* called, whichever of them raised.
C37_TeardownRunsEveryStep ==
  (akind = "base" /\ lpc = "ended") =>
    /\ ~is_ready
    /\ endedBy # "none"
    /\ {c.step : c \in closeCalls} = {"bus", "db", "health"}

\* the run was cancelled, closing the bus raised, and the store was closed
\* and the health server stopped all the same
C37_Witness ==
  /\ akind = "base"
  /\ lpc = "ended"
  /\ endedBy = "cancel"
  /\ [step |-> "bus", ok |-> FALSE] \in closeCalls
  /\ [step |-> "db", ok |-> TRUE] \in closeCalls
  /\ [step |-> "health", ok |-> TRUE] \in closeCalls

(***************************************************************************)
(* NatsClient.subscribe and unsubscribe on a connected client              *)
(***************************************************************************)
\* the subscription objects nc.subscribe has handed out for a subject
ActiveFor(sj) == {a \in sactive : a.subject = sj}

\* subscribe(subject): nc.subscribe either raises on all five attempts, and
\* nothing is registered, or returns a new subscription, which is stored
\* under the subject whatever the map held there before
SubsSubscribe(sj) ==
  /\ nc # NoConn
  /\ subCalls < MaxSubCalls
  /\ subCalls' = subCalls + 1
  /\ \E ok \in BOOLEAN :
       IF ok
       THEN /\ sactive' = sactive \cup {[id |-> subCalls + 1, subject |-> sj]}
            /\ smap' = [smap EXCEPT ![sj] = subCalls + 1]
       ELSE UNCHANGED <<smap, sactive>>
  /\ UNCHANGED nonSubs

\* unsubscribe(subject): the subscription the map holds for the subject is
\* unsubscribed and its entry deleted; a subject not in the map is left alone
SubsUnsubscribe(sj) ==
  /\ IF smap[sj] # 0
     THEN /\ sactive' = sactive \ {[id |-> smap[sj], subject |-> sj]}
          /\ smap' = [smap EXCEPT ![sj] = 0]
     ELSE UNCHANGED <<smap, sactive>>
  /\ UNCHANGED subCalls
  /\ UNCHANGED nonSubs

\* a client whose connect() has succeeded
InitSubs ==
  /\ url = "nats://nats:4222"
  /\ nc = 1
  /\ js = 1
  /\ connUrl = <<"nats://nats:4222">>
  /\ reachable = {"nats://nats:4222"}
  /\ netChanges = 0
  /\ faults = 0
  /\ streams = [n \in StreamNames |-> NoStream]
  /\ msgs = [n \in StreamNames |-> <<>>]
  /\ PubIdle
  /\ RouterIdle
  /\ FetchIdle
  /\ SecretIdle
  /\ ArticleIdle
  /\ StoreIdle
  /\ ConnIdle
  /\ StartIdle
  /\ LifeIdle
  /\ ChainIdle
  /\ SumIdle
  /\ RankIdle
  /\ SubsIdle
  /\ SchedIdle

NextSubs ==
  \/ \E sj \in SubSubjects : SubsSubscribe(sj)
  \/ \E sj \in SubSubjects : SubsUnsubscribe(sj)

SpecSubs == InitSubs /\ [][NextSubs]_vars

\* C36: the subscriptions map holds exactly the active subscriptions: for
\* every subject, the subscriptions the connection delivers to are the one
\* the map holds for it, and none when the map has no entry for it.
C36_MapHoldsTheActiveSubscriptions ==
  \A sj \in SubSubjects :
    ActiveFor(sj) =
      IF smap[sj] = 0 THEN {} ELSE {[id |-> smap[sj], subject |-> sj]}

(***************************************************************************)
(* The scheduler's schedule_rss_updates                                    *)
(***************************************************************************)
\* the orders in which the query can return the active sources:
\* ORDER BY last_fetched_at ASC NULLS FIRST, rows with equal keys in any order
SourceOrders ==
  {q \in [1..Cardinality(schActive) -> schActive] :
     /\ \A i, j \in DOMAIN q : i # j => q[i] # q[j]
     /\ \A i, j \in DOMAIN q : i < j => schFetched[q[i]] <= schFetched[q[j]]}

\* where the loop goes when the publish or the update of a source raised: the
\* except clause logs and continues with the next source
AfterSourceError_Break(q) == <<>>
AfterSourceError(q) == Tail(q)

\* schedule_rss_updates is called: the query raises or returns no row, and the
\* call ends, or the loop starts on the rows returned
SchedStart ==
  /\ schpc = "idle"
  /\ schCycle < MaxCycles
  /\ schCycle' = schCycle + 1
  /\ \E ok \in BOOLEAN :
       IF ok /\ schActive # {}
       THEN /\ \E q \in SourceOrders : schQueue' = q
            /\ schListed' = schActive
            /\ schpc' = "publish"
       ELSE /\ schListed' = {}
            /\ UNCHANGED <<schQueue, schpc>>
  /\ UNCHANGED <<schActive, schFetched, schPub, schTried>>
  /\ UNCHANGED nonSched

\* js.publish of the rss_fetch task of the source at the head of the loop
SchedPublish ==
  /\ schpc = "publish"
  /\ schQueue # <<>>
  /\ schTried' = Append(schTried, <<Head(schQueue), schCycle>>)
  /\ \E ok \in BOOLEAN :
       IF ok
       THEN /\ schPub' = schPub \cup {<<Head(schQueue), schCycle>>}
            /\ schpc' = "update"
            /\ UNCHANGED schQueue
       ELSE /\ schQueue' = AfterSourceError(schQueue)
            /\ UNCHANGED <<schPub, schpc>>
  /\ UNCHANGED <<schActive, schFetched, schCycle, schListed>>
  /\ UNCHANGED nonSched

\* the UPDATE of last_fetched_at that follows a publish
SchedUpdate ==
  /\ schpc = "update"
  /\ schpc' = "publish"
  /\ \E ok \in BOOLEAN :
       IF ok
       THEN /\ schFetched' = [schFetched EXCEPT ![Head(schQueue)] = schCycle]
            /\ schQueue' = Tail(schQueue)
       ELSE /\ schQueue' = AfterSourceError(schQueue)
            /\ UNCHANGED schFetched
  /\ UNCHANGED <<schActive, schPub, schTried, schCycle, schListed>>
  /\ UNCHANGED nonSched

\* the loop has gone through its rows
SchedEnd ==
  /\ schpc = "publish"
  /\ schQueue = <<>>
  /\ schpc' = "idle"
  /\ UNCHANGED <<schQueue, schActive, schFetched, schPub, schTried, schCycle, schListed>>
  /\ UNCHANGED nonSched

\* nothing scheduled yet, every last_fetched_at NULL, any set of active rows
InitSched ==
  /\ url = "nats://nats:4222"
  /\ nc = NoConn
  /\ js = NoConn
  /\ connUrl = <<>>
  /\ reachable = {}
  /\ netChanges = 0
  /\ faults = 0
  /\ streams = [n \in StreamNames |-> NoStream]
  /\ msgs = [n \in StreamNames |-> <<>>]
  /\ PubIdle
  /\ RouterIdle
  /\ FetchIdle
  /\ SecretIdle
  /\ ArticleIdle
  /\ StoreIdle
  /\ ConnIdle
  /\ StartIdle
  /\ LifeIdle
  /\ ChainIdle
  /\ SumIdle
  /\ RankIdle
  /\ SubsIdle
  /\ schpc = "idle"
  /\ schQueue = <<>>
  /\ schActive \in SUBSET Sources
  /\ schFetched = [sc \in Sources |-> 0]
  /\ schPub = {}
  /\ schTried = <<>>
  /\ schCycle = 0
  /\ schListed = {}

NextSched ==
  \/ SchedStart
  \/ SchedPublish
  \/ SchedUpdate
  \/ SchedEnd

SpecSched == InitSched /\ [][NextSched]_vars

\* C38: a source's last_fetched_at is set by a cycle only if that cycle
\* published the source's rss_fetch task, and when a cycle's loop has ended,
\* the publish of every source the query returned has been attempted,
\* whatever failed for the sources before it.
C38_UpdateAfterPublishAndAllScheduled ==
  /\ \A sc \in Sources :
       schFetched[sc] # 0 => <<sc, schFetched[sc]>> \in schPub
  /\ (schpc = "idle" /\ schCycle > 0) =>
       \A sc \in schListed : \E i \in DOMAIN schTried : schTried[i] = <<sc, schCycle>>

\* a cycle has ended in which the publish of one source failed, leaving its
\* last_fetched_at unset, and a source after it was published and updated
C38_Witness ==
  /\ schpc = "idle"
  /\ \E i, j \in DOMAIN schTried :
       /\ i < j
       /\ schTried[i][2] = schCycle
       /\ schTried[j][2] = schCycle
       /\ schTried[i] \notin schPub
       /\ schFetched[schTried[i][1]] = 0
       /\ schTried[j] \in schPub
       /\ schFetched[schTried[j][1]] = schCycle

====
